---- MODULE Spec2Model ----
(***************************************************************************)
(* Heart-rate monitor: the Heart Rate Measurement frame decoder, the       *)
(* notification pipeline (PropertiesChanged handler with duplicate-line    *)
(* suppression) and the anomaly detectors (bradycardia, tachycardia,       *)
(* arrhythmia), and the session supervisor that keeps the link to the      *)
(* sensor alive.                                                           *)
(*                                                                         *)
(* bluetooth.cpp  props_changed_cb          decoder + pipeline             *)
(* feat_health_bradycardia.cpp / feat_health_tachycardia.cpp               *)
(* feat_health_arrythmia.cpp                health_check_arrhythmia        *)
(* bluetooth.cpp  ensure_connected_and_notifying   session supervisor      *)
(***************************************************************************)
EXTENDS Integers, Sequences, FiniteSets, TLC

VARIABLES
    msg,                \* payload ("Value", ay) of the PropertiesChanged signal in flight
    pending,            \* a signal is queued on the bus and not yet dispatched
    clock,              \* now_ms(): wall clock in milliseconds
    g_health_warnings,  \* feat_health.hpp: extern bool g_health_warnings
    s_last_line,        \* props_changed_cb: static std::string s_last_line
    s_suppressed,       \* props_changed_cb: static uint64_t s_suppressed
    stdout,             \* lines written to std::cout, in order
    brady,              \* statics of health_check_bradycardia
    tachy,              \* statics of health_check_tachycardia
    arr,                \* statics of health_check_arrhythmia
    session,            \* dev_path, ch_path, slot of the caller, and the matches on the bus
    sup,                \* statics of ensure_connected_and_notifying
    transport,          \* what BlueZ exposes: device, Connected, characteristic, Notifying
    steady,             \* std::chrono::steady_clock, in milliseconds
    loop,               \* position of the event loop: "wait", "maintain" or "exited"
    trace               \* one record per handled call: its inputs and what it emitted

link_vars == <<session, sup, transport, steady, loop>>

pipeline_vars == <<msg, pending, clock, g_health_warnings, s_last_line,
                   s_suppressed, stdout, brady, tachy, arr>>

vars == <<msg, pending, clock, g_health_warnings, s_last_line, s_suppressed,
          stdout, brady, tachy, arr, session, sup, transport, steady, loop, trace>>

(***************************************************************************)
(* Bounds of the model.                                                    *)
(***************************************************************************)
MaxDataLen == 6
MaxNotifications == 3
MaxTicks == 2
MaxSamples == 3
MaxPauseRR == 3
MaxRhythmRR == 5
MaxHistoryCalls == 3
MaxMaintTicks == 3
MaxStartupTicks == 2
MaxCleanLen == 6
MaxPatternValues == 6
MaxBackSamples == 3
MaxLogLines == 2
MaxFinds == 1
MaxEctopicCalls == 3
MaxScreenCalls == 2

\* The clock value the live runs start at (9 -> 10 changes the width of the text).
ClockStart == 9

Min(a, b) == IF a <= b THEN a ELSE b
Max(a, b) == IF a >= b THEN a ELSE b

(***************************************************************************)
(* Frame decoder: bluetooth.cpp 479-521 (the same code is main.cpp         *)
(* 476-524).  Indices are 0-based as in the code; B reads bytes[i].        *)
(***************************************************************************)
B(bytes, i) == IF i + 1 \in 1..Len(bytes) THEN bytes[i + 1] ELSE 0

HasBit(flags, mask) == (flags \div mask) % 2 = 1

Hr16BitMut(flags) == HasBit(flags, 16)
Hr16Bit(flags) == HasBit(flags, 1)

EePresent(flags) == HasBit(flags, 8)

RrPresent(flags) == HasBit(flags, 16)

\* (int)bytes[idx] | ((int)bytes[idx + 1] << 8)
Le16Mut(lo, hi) == hi + 256 * lo
Le16(lo, hi) == lo + 256 * hi

\* bytes.size() >= idx + 2 guarding the 16-bit heart-rate read
Fits16Mut(bytes, idx) == Len(bytes) >= idx + 1
Fits16(bytes, idx) == Len(bytes) >= idx + 2

\* bytes.size() >= idx + 1 guarding the 8-bit heart-rate read
Fits8Mut(bytes, idx) == Len(bytes) >= idx + 4
Fits8(bytes, idx) == Len(bytes) >= idx + 1

\* lines 491-499: the heart-rate field.  bpm = -1 is "absent".
ParseBpm(bytes) ==
    LET flags == B(bytes, 0)
        idx == 1
    IN  IF Hr16Bit(flags)
        THEN IF Fits16(bytes, idx)
             THEN [bpm |-> Le16(B(bytes, idx), B(bytes, idx + 1)),
                   idx |-> idx + 2, reads |-> {0, idx, idx + 1}]
             ELSE [bpm |-> -1, idx |-> idx, reads |-> {0}]
        ELSE IF Fits8(bytes, idx)
             THEN [bpm |-> B(bytes, idx), idx |-> idx + 1, reads |-> {0, idx}]
             ELSE [bpm |-> -1, idx |-> idx, reads |-> {0}]

\* line 501: skip Energy Expended
SkipEEMut(bytes, idx) == idx
SkipEE(bytes, idx) ==
    IF EePresent(B(bytes, 0)) /\ Len(bytes) >= idx + 2 THEN idx + 2 ELSE idx

\* line 507: (rr1024 * 1000ULL + 512ULL) / 1024ULL
RRToMsMut(rr1024) == (rr1024 * 1000) \div 1024
RRToMs(rr1024) == (rr1024 * 1000 + 512) \div 1024

\* lines 504-509: the RR loop, from idx on
RECURSIVE ParseRR(_, _)
ParseRR(bytes, idx) ==
    IF Len(bytes) >= idx + 2
    THEN <<RRToMs(Le16(B(bytes, idx), B(bytes, idx + 1)) % 65536)>>
             \o ParseRR(bytes, idx + 2)
    ELSE <<>>

\* the byte indices the RR loop reads
RECURSIVE RRReads(_, _)
RRReads(bytes, idx) ==
    IF Len(bytes) >= idx + 2
    THEN {idx, idx + 1} \cup RRReads(bytes, idx + 2)
    ELSE {}

\* lines 479-521: bpm, rr_ms and the indices of bytes[] that were read
ParseHRM(bytes) ==
    IF bytes = <<>>
    THEN [bpm |-> -1, rr_ms |-> <<>>, reads |-> {}]
    ELSE LET hr == ParseBpm(bytes)
             idx == SkipEE(bytes, hr.idx)
         IN  IF RrPresent(B(bytes, 0))
             THEN [bpm |-> hr.bpm, rr_ms |-> ParseRR(bytes, idx),
                   reads |-> hr.reads \cup RRReads(bytes, idx)]
             ELSE [bpm |-> hr.bpm, rr_ms |-> <<>>, reads |-> hr.reads]

(***************************************************************************)
(* Output line: bluetooth.cpp 524-528.  operator<< of an integer writes    *)
(* its decimal digits.                                                     *)
(***************************************************************************)
DigitChars == <<"0", "1", "2", "3", "4", "5", "6", "7", "8", "9">>

RECURSIVE Decimal(_)
Decimal(n) ==
    IF n < 10 THEN DigitChars[n + 1]
    ELSE Decimal(n \div 10) \o DigitChars[(n % 10) + 1]

RECURSIVE JoinRR(_)
JoinRR(rr) ==
    IF rr = <<>> THEN "" ELSE "," \o Decimal(Head(rr)) \o JoinRR(Tail(rr))

\* the timestamp field of the line
LineStampMut(t) == ""
LineStamp(t) == Decimal(t)

FormatLine(t, bpm, rr_ms) ==
    LineStamp(t) \o (IF bpm >= 0 THEN "," \o Decimal(bpm) ELSE "") \o JoinRR(rr_ms)

(***************************************************************************)
(* Durations.  Every detector clamps the elapsed time at 0                 *)
(* (feat_health_bradycardia.cpp 21) and prints it either in seconds with   *)
(* one decimal (bradycardia, tachycardia) or through                       *)
(* health_format_duration (arrhythmia).                                    *)
(***************************************************************************)
ElapsedMsMut(ts_ms, start_ms) ==
    IF ts_ms >= start_ms THEN ts_ms - start_ms ELSE start_ms - ts_ms
ElapsedMs(ts_ms, start_ms) == IF ts_ms >= start_ms THEN ts_ms - start_ms ELSE 0

\* std::fixed << std::setprecision(1) << dur_ms / 1000.0 .  Exact for the
\* timestamps of this model: no duration here ends in 50 ms, where the
\* printed digit would depend on the binary rounding of the quotient.
FixedOneDecimal(dur_ms) ==
    LET tenths == (dur_ms + 50) \div 100
    IN  Decimal(tenths \div 10) \o "." \o Decimal(tenths % 10)

\* feat_health.cpp 5-16
HealthFormatDuration(ms) ==
    LET total_s == IF ms >= 0 THEN ms \div 1000 ELSE 0
        mins == total_s \div 60
        secs == total_s % 60
    IN  IF mins > 0 THEN Decimal(mins) \o "m" \o Decimal(secs) \o "s"
        ELSE Decimal(secs) \o "s"

(***************************************************************************)
(* Bradycardia: feat_health_bradycardia.cpp 8-30.  Each operator returns   *)
(* the new statics (st) and the warnings it emitted, in order (out).       *)
(***************************************************************************)
BradyInit == [active |-> FALSE, start_ms |-> 0, lowest_bpm |-> 0]

BradyNowMut(bpm) == bpm < 60
BradyNow(bpm) == (bpm > 0) /\ (bpm < 60)

HealthCheckBradycardia(st, bpm, ts_ms) ==
    LET now == BradyNow(bpm)
    IN  IF now /\ ~st.active
        THEN [st  |-> [active |-> now, start_ms |-> ts_ms, lowest_bpm |-> bpm],
              out |-> <<[kind |-> "bradycardia", bpm |-> bpm]>>]
        ELSE IF now /\ st.active
        THEN [st  |-> [st EXCEPT !.lowest_bpm = Min(@, bpm), !.active = now],
              out |-> <<>>]
        ELSE IF ~now /\ st.active
        THEN LET dur_ms == ElapsedMs(ts_ms, st.start_ms)
             IN  [st  |-> [st EXCEPT !.active = now],
                  out |-> <<[kind |-> "bradycardia_recovered",
                             dur_ms |-> dur_ms,
                             duration |-> FixedOneDecimal(dur_ms) \o "s",
                             lowest_bpm |-> st.lowest_bpm]>>]
        ELSE [st |-> [st EXCEPT !.active = now], out |-> <<>>]

(***************************************************************************)
(* Tachycardia: feat_health_tachycardia.cpp 8-30.                          *)
(***************************************************************************)
TachyInit == [active |-> FALSE, start_ms |-> 0, highest_bpm |-> 0]

TachyNowMut(bpm) == (bpm > 0) /\ (bpm >= 100)
TachyNow(bpm) == (bpm > 0) /\ (bpm > 100)

\* line 29: s_active = now, on every path
TachyActiveMut(st, now) == st.active \/ now
TachyActive(st, now) == now

HealthCheckTachycardia(st, bpm, ts_ms) ==
    LET now == TachyNow(bpm)
    IN  IF now /\ ~st.active
        THEN [st  |-> [active |-> TachyActive(st, now), start_ms |-> ts_ms, highest_bpm |-> bpm],
              out |-> <<[kind |-> "tachycardia", bpm |-> bpm]>>]
        ELSE IF now /\ st.active
        THEN [st  |-> [st EXCEPT !.highest_bpm = Max(@, bpm), !.active = TachyActive(st, now)],
              out |-> <<>>]
        ELSE IF ~now /\ st.active
        THEN LET dur_ms == ElapsedMs(ts_ms, st.start_ms)
             IN  [st  |-> [st EXCEPT !.active = TachyActive(st, now)],
                  out |-> <<[kind |-> "tachycardia_recovered",
                             dur_ms |-> dur_ms,
                             duration |-> FixedOneDecimal(dur_ms) \o "s",
                             highest_bpm |-> st.highest_bpm]>>]
        ELSE [st |-> [st EXCEPT !.active = TachyActive(st, now)], out |-> <<>>]

(***************************************************************************)
(* Arrhythmia: feat_health_arrythmia.cpp.                                  *)
(***************************************************************************)
kMinRRms == 250
kMaxRRms == 2500
kAfWindow == 128
kMaxRawRR == 512
kRecoveryGateMs == 1000

ArrInit ==
    [rr_raw |-> <<>>,
     possible_af |-> FALSE, af_start_ms |-> 0,
     pause_active |-> FALSE, pause_start_ms |-> 0,
     pause_min_rr |-> 0, pause_max_rr |-> 0,
     ectopic_active |-> FALSE, ectopic_start_ms |-> 0, ectopic_count |-> 0]

\* line 143
AbnormalRRMut(rr) == rr <= kMinRRms \/ rr >= kMaxRRms
AbnormalRR(rr) == rr < kMinRRms \/ rr > kMaxRRms

\* lines 102-113: warn_pause_or_artifact (the text also carries 60000/rr)
WarnPauseOrArtifact(rr_ms) ==
    IF rr_ms > kMaxRRms
    THEN [kind |-> "pause_dropout", rr_ms |-> rr_ms]
    ELSE [kind |-> "artifact", rr_ms |-> rr_ms]

\* lines 157, 189, 204, 220, 247: dur_ms > 1000
LongEnoughMut(dur_ms) == dur_ms >= kRecoveryGateMs
LongEnough(dur_ms) == dur_ms > kRecoveryGateMs

\* lines 176-179 and 84-87: the short-long-short test on a, b, c, d.  The
\* code divides doubles; for integers in [250, 2500] a quotient differs from
\* a threshold by 0 or by more than 1/12500, so the comparisons of the
\* rounded quotients are those of the exact ones.
ShortLongShortMut(a, b, c, d) ==
    (5 * b < 4 * a) /\ (10 * c >= 13 * b) /\ (10 * d <= 9 * c)
ShortLongShort(a, b, c, d) ==
    (5 * b <= 4 * a) /\ (10 * c >= 13 * b) /\ (10 * d <= 9 * c)

\* lines 167-168: push_back, then pop_front beyond the capacity
PushRawMut(raw, rr) ==
    LET r == Append(raw, rr)
    IN  IF Len(r) > kMaxRawRR THEN SubSeq(r, 1, kMaxRawRR) ELSE r
PushRaw(raw, rr) ==
    LET r == Append(raw, rr)
    IN  IF Len(r) > kMaxRawRR THEN Tail(r) ELSE r

\* line 185: ++s_ectopic_count
EctopicCountedMut(st) == st
EctopicCounted(st) == [st EXCEPT !.ectopic_count = @ + 1]

\* lines 181-183: an episode starts
EctopicStartedMut(st, ts_ms) ==
    [st EXCEPT !.ectopic_active = TRUE, !.ectopic_start_ms = ts_ms]
EctopicStarted(st, ts_ms) ==
    [st EXCEPT !.ectopic_active = TRUE, !.ectopic_start_ms = ts_ms,
               !.ectopic_count = 0]

\* lines 170-198: the ectopic check after a normal value was appended
EctopicCheck(st, ts_ms) ==
    LET n == Len(st.rr_raw)
    IN  IF n >= 4
        THEN LET a == st.rr_raw[n - 3]
                 b == st.rr_raw[n - 2]
                 c == st.rr_raw[n - 1]
                 d == st.rr_raw[n]
             IN  IF ShortLongShort(a, b, c, d)
                 THEN LET s1 == IF ~st.ectopic_active
                                THEN EctopicStarted(st, ts_ms)
                                ELSE st
                      IN  [st  |-> EctopicCounted(s1),
                           out |-> <<[kind |-> "ectopic", a |-> a, b |-> b,
                                      c |-> c, d |-> d]>>]
                 ELSE IF st.ectopic_active
                 THEN LET dur_ms == ElapsedMs(ts_ms, st.ectopic_start_ms)
                      IN  [st  |-> [st EXCEPT !.ectopic_active = FALSE],
                           out |-> IF LongEnough(dur_ms)
                                   THEN <<[kind |-> "ectopic_recovered",
                                           duration |-> HealthFormatDuration(dur_ms),
                                           count |-> st.ectopic_count]>>
                                   ELSE <<>>]
                 ELSE [st |-> st, out |-> <<>>]
        ELSE [st |-> st, out |-> <<>>]

\* lines 142-199: the loop body for one RR value
ArrValue(st, rr, ts_ms) ==
    IF AbnormalRR(rr)
    THEN [st  |-> IF ~st.pause_active
                  THEN [st EXCEPT !.pause_active = TRUE,
                                  !.pause_start_ms = ts_ms,
                                  !.pause_min_rr = rr,
                                  !.pause_max_rr = rr]
                  ELSE [st EXCEPT !.pause_min_rr = Min(@, rr),
                                  !.pause_max_rr = Max(@, rr)],
          out |-> <<WarnPauseOrArtifact(rr)>>]
    ELSE LET dur_ms == ElapsedMs(ts_ms, st.pause_start_ms)
             rec == IF st.pause_active /\ LongEnough(dur_ms)
                    THEN <<[kind |-> "pause_recovered",
                            duration |-> HealthFormatDuration(dur_ms),
                            min_rr |-> st.pause_min_rr,
                            max_rr |-> st.pause_max_rr]>>
                    ELSE <<>>
             s1 == [st EXCEPT !.pause_active = FALSE,
                              !.rr_raw = PushRaw(@, rr)]
             e == EctopicCheck(s1, ts_ms)
         IN  [st |-> e.st, out |-> rec \o e.out]

\* lines 142-199: the loop; by_value[i] is what the i-th value emitted
RECURSIVE ArrLoop(_, _, _, _)
ArrLoop(st, rr_ms, ts_ms, by_value) ==
    IF rr_ms = <<>>
    THEN [st |-> st, by_value |-> by_value]
    ELSE IF Len(rr_ms) = 1
    THEN LET v == ArrValue(st, rr_ms[1], ts_ms)
         IN  [st |-> v.st, by_value |-> Append(by_value, v.out)]
    ELSE \* the first half of the list, then the rest from the state it leaves
         LET h == Len(rr_ms) \div 2
             l == ArrLoop(st, SubSeq(rr_ms, 1, h), ts_ms, by_value)
         IN  IF Len(l.by_value) >= 0
             THEN ArrLoop(l.st, SubSeq(rr_ms, h + 1, Len(rr_ms)), ts_ms, l.by_value)
             ELSE l

(***************************************************************************)
(* Possible-AF screening: lines 18-100 and 201-254.                        *)
(***************************************************************************)
RECURSIVE SumSeq(_)
SumSeq(q) ==
    IF q = <<>> THEN 0
    ELSE IF Len(q) = 1 THEN q[1]
    ELSE LET h == Len(q) \div 2
         IN  SumSeq(SubSeq(q, 1, h)) + SumSeq(SubSeq(q, h + 1, Len(q)))

\* lines 84-87: the 0-based positions i at which the pattern holds of
\* rr[i-1], rr[i], rr[i+1], rr[i+2]
CleanMatches(rr) ==
    {i \in 1..(Len(rr) - 3) : ShortLongShort(rr[i], rr[i + 1], rr[i + 2], rr[i + 3])}

\* lines 83, 90: the scan started at first reaches position i unless it
\* dropped a pair at i-1 (i += 1, then ++i): it does when the run of
\* matching positions just before i has even length
CleanVisited(M, first, i) ==
    IF (i - 1) \notin M THEN TRUE
    ELSE Cardinality({k \in first..(i - 1) : \A l \in k..(i - 1) : l \in M}) % 2 = 0

\* lines 88-89: the positions a match at i drops
DroppedAtMut(i) == {i}
DroppedAt(i) == {i, i + 1}

\* lines 82-92: the 0-based positions dropped by the pass that starts at first
CleanDrop(rr, first) ==
    LET M == CleanMatches(rr)
    IN  UNION {DroppedAt(i) : i \in {k \in M : k >= first /\ CleanVisited(M, first, k)}}

\* lines 94-98: the values at the 0-based positions from i on that are kept
KeepAt(rr, drop, i) ==
    LET m == Cardinality({p \in i..(Len(rr) - 1) : p \notin drop})
        pos(k) == CHOOSE p \in (i + k - 1)..(i + k - 1 + Cardinality(drop)) :
                      /\ p \notin drop
                      /\ p - Cardinality({d \in drop : d >= i /\ d < p}) = i + k - 1
    IN  [k \in 1..m |-> rr[pos(k) + 1]]

DashStyleCleanRR(rr) ==
    IF Len(rr) < 5 THEN rr ELSE KeepAt(rr, CleanDrop(rr, 1), 0)

\* The products of lines 23-27 exceed 32 bits: a * b for a, b < 2^30 as four
\* digits in base 2^15, most significant first
WideMul(a, b) ==
    LET ah == a \div 32768
        al == a % 32768
        bh == b \div 32768
        bl == b % 32768
        c1 == ah * bl + al * bh + (al * bl) \div 32768
        c2 == ah * bh + c1 \div 32768
    IN  <<c2 \div 32768, c2 % 32768, c1 % 32768, (al * bl) % 32768>>

WideGreater(x, y) ==
    \E k \in 1..4 : x[k] > y[k] /\ \A j \in 1..(k - 1) : x[j] = y[j]

\* lines 18-28 with line 235: rmssd_ratio(seg) > 0.1, i.e.
\* sum/(n-1) > 0.01 * (S/n)^2 (NaN, below 2 values, compares false)
RmssdAbove(rr) ==
    LET n == Len(rr)
        sum == SumSeq([i \in 1..(n - 1) |-> (rr[i + 1] - rr[i]) * (rr[i + 1] - rr[i])])
        S == SumSeq(rr)
    IN  n >= 2 /\ S > 0 /\ WideGreater(WideMul(sum, 100 * n * n), WideMul(S * (n - 1), S))

\* lines 30-40 with line 235: 0.54 < turning_point_ratio(seg) < 0.77
TurningPointsInBand(rr) ==
    LET n == Len(rr)
        tp == Cardinality({i \in 2..(n - 1) :
                  \/ (rr[i] > rr[i - 1] /\ rr[i] > rr[i + 1])
                  \/ (rr[i] < rr[i - 1] /\ rr[i] < rr[i + 1])})
    IN  n >= 3 /\ 100 * tp > 54 * (n - 2) /\ 100 * tp < 77 * (n - 2)

\* std::log on 1..112, in units of 1/10000 (the analysis segment has 128
\* values, so at most 112 remain after trimming)
LnE4 ==
  << 0, 6931, 10986, 13863, 16094, 17918, 19459, 20794, 21972, 23026, 23979, 24849, 25649, 26391,
     27081, 27726, 28332, 28904, 29444, 29957, 30445, 30910, 31355, 31781, 32189, 32581, 32958, 33322,
     33673, 34012, 34340, 34657, 34965, 35264, 35553, 35835, 36109, 36376, 36636, 36889, 37136, 37377,
     37612, 37842, 38067, 38286, 38501, 38712, 38918, 39120, 39318, 39512, 39703, 39890, 40073, 40254,
     40431, 40604, 40775, 40943, 41109, 41271, 41431, 41589, 41744, 41897, 42047, 42195, 42341, 42485,
     42627, 42767, 42905, 43041, 43175, 43307, 43438, 43567, 43694, 43820, 43944, 44067, 44188, 44308,
     44427, 44543, 44659, 44773, 44886, 44998, 45109, 45218, 45326, 45433, 45539, 45643, 45747, 45850,
     45951, 46052, 46151, 46250, 46347, 46444, 46540, 46634, 46728, 46821, 46913, 47005, 47095, 47185 >>

\* lines 44-48: the value at (1-based) position k of the sorted segment
SortedAt(rr, k) ==
    CHOOSE v \in {rr[i] : i \in 1..Len(rr)} :
        /\ Cardinality({i \in 1..Len(rr) : rr[i] < v}) < k
        /\ Cardinality({i \in 1..Len(rr) : rr[i] <= v}) >= k

\* lines 45-46: the positions of rr that survive trimming the 8 smallest and
\* the 8 largest values (ties broken by position, as any sort breaks them)
TrimmedPositions(rr) ==
    LET n == Len(rr)
        rank(i) == Cardinality({j \in 1..n : rr[j] < rr[i] \/ (rr[j] = rr[i] /\ j <= i)})
    IN  {i \in 1..n : rank(i) > 8 /\ rank(i) <= n - 8}

\* lines 54-57: the bin of x.  t * 16 is exact in doubles when it is an
\* integer and is otherwise more than 1/2250 away from one.
BinOf(x, lo, hi) == Min(15, (16 * (x - lo)) \div (hi - lo))

\* lines 51-59: counts[k], k in 0..15
BinCounts(rr, lo, hi) ==
    LET kept == TrimmedPositions(rr)
    IN  [k \in 0..15 |-> Cardinality({i \in kept : BinOf(rr[i], lo, hi) = k})]

\* line 70: the sign of the divisor std::log(1.0 / bins)
LogOfOneOverBins == -1

\* lines 42-72: the entropy as the quotient num / den of integers, or
\* undefined (NaN).  total * se = total*ln(total) - sum c*ln(c), and the
\* divisor is ln(1/16) = -ln(16).
ShannonEntropy16Bins(rr) ==
    IF Len(rr) < 32 THEN [defined |-> FALSE, num |-> 0, den |-> 1]
    ELSE LET lo == SortedAt(rr, 9)
             hi == SortedAt(rr, Len(rr) - 8)
             total == Len(rr) - 16
         IN  IF hi <= lo THEN [defined |-> TRUE, num |-> 0, den |-> 1]
             ELSE LET counts == BinCounts(rr, lo, hi)
                      clnc == SumSeq([k \in 1..16 |->
                                 IF counts[k - 1] = 0 THEN 0
                                 ELSE counts[k - 1] * LnE4[counts[k - 1]]])
                  IN  [defined |-> TRUE,
                       num |-> total * LnE4[total] - clnc,
                       den |-> LogOfOneOverBins * total * LnE4[16]]

\* line 235: e > 0.7 (false for NaN)
EntropyAboveMut(rr) ==
    LET e == ShannonEntropy16Bins(rr)
    IN  /\ e.defined
        /\ 10 * e.num > 7 * (IF e.den < 0 THEN -e.den ELSE e.den)
EntropyAbove(rr) ==
    LET e == ShannonEntropy16Bins(rr)
    IN  /\ e.defined
        /\ IF e.den > 0 THEN 10 * e.num > 7 * e.den ELSE 10 * e.num < 7 * e.den

\* lines 202-211, 218-227, 245-253: the possible-AF recovery notice
AfRecoveryMut(st, ts_ms) ==
    LET dur_ms == ElapsedMs(ts_ms, st.af_start_ms)
    IN  IF LongEnough(dur_ms)
        THEN <<[kind |-> "possible_af_recovered",
                duration |-> HealthFormatDuration(dur_ms)]>>
        ELSE <<>>
AfRecovery(st, ts_ms) ==
    LET dur_ms == ElapsedMs(ts_ms, st.af_start_ms)
    IN  IF st.possible_af /\ LongEnough(dur_ms)
        THEN <<[kind |-> "possible_af_recovered",
                duration |-> HealthFormatDuration(dur_ms)]>>
        ELSE <<>>

\* lines 201-254
ArrAF(st, ts_ms) ==
    IF Len(st.rr_raw) < kAfWindow
    THEN [st |-> [st EXCEPT !.possible_af = FALSE], out |-> AfRecovery(st, ts_ms)]
    ELSE LET cleaned == DashStyleCleanRR(st.rr_raw)
         IN  IF Len(cleaned) < kAfWindow
             THEN [st |-> [st EXCEPT !.possible_af = FALSE],
                   out |-> AfRecovery(st, ts_ms)]
             ELSE LET seg == SubSeq(cleaned, Len(cleaned) - kAfWindow + 1, Len(cleaned))
                      possible == /\ RmssdAbove(seg)
                                  /\ TurningPointsInBand(seg)
                                  /\ EntropyAbove(seg)
                  IN  IF possible /\ ~st.possible_af
                      THEN [st  |-> [st EXCEPT !.af_start_ms = ts_ms,
                                               !.possible_af = possible],
                            out |-> <<[kind |-> "possible_af"]>>]
                      ELSE IF ~possible /\ st.possible_af
                      THEN [st  |-> [st EXCEPT !.possible_af = possible],
                            out |-> AfRecovery(st, ts_ms)]
                      ELSE [st |-> [st EXCEPT !.possible_af = possible], out |-> <<>>]

\* lines 130-255
HealthCheckArrhythmia(st, rr_ms, ts_ms) ==
    LET l == ArrLoop(st, rr_ms, ts_ms, <<>>)
        af == ArrAF(l.st, ts_ms)
    IN  [st |-> af.st, by_value |-> l.by_value, af_out |-> af.out]

RECURSIVE Flatten(_)
Flatten(qq) == IF qq = <<>> THEN <<>> ELSE Head(qq) \o Flatten(Tail(qq))

(***************************************************************************)
(* Offline replay: feat_analyze_log.cpp 14-66.  A line is the sequence of  *)
(* its characters.                                                         *)
(***************************************************************************)
\* std::isdigit, and c - '0'
IsDigit(c) == \E d \in 1..10 : DigitChars[d] = c
DigitVal(c) == (CHOOSE d \in 1..10 : DigitChars[d] = c) - 1

\* line 27: the character after a field
IsSeparatorMut(c) == TRUE
IsSeparator(c) == c = ","

\* lines 20-24: the number that starts at position i (1-based), and the
\* position after it
RECURSIVE ReadNumber(_, _, _)
ReadNumber(line, i, v) ==
    IF i <= Len(line) /\ IsDigit(line[i])
    THEN ReadNumber(line, i + 1, v * 10 + DigitVal(line[i]))
    ELSE [v |-> v, i |-> i]

\* lines 18-29: the loop from position i on; ok is FALSE when it returns false
RECURSIVE ParseFields(_, _, _)
ParseFields(line, i, out) ==
    IF i > Len(line) THEN [ok |-> TRUE, out |-> out]
    ELSE IF ~IsDigit(line[i]) THEN [ok |-> FALSE, out |-> out]
    ELSE LET n == ReadNumber(line, i, 0)
             out2 == Append(out, n.v)
         IN  IF n.i > Len(line) THEN [ok |-> TRUE, out |-> out2]
             ELSE IF ~IsSeparator(line[n.i]) THEN [ok |-> FALSE, out |-> out2]
             ELSE ParseFields(line, n.i + 1, out2)

\* lines 14-31
ParseLogLine(line) ==
    IF line = <<>> THEN [ok |-> FALSE, out |-> <<>>]
    ELSE LET p == ParseFields(line, 1, <<>>)
         IN  [ok |-> p.ok /\ Len(p.out) >= 2, out |-> p.out]

\* lines 45-60: one line of the log on the detectors d; calls are the
\* detector calls it makes, in order
AnalyzeLine(d, line) ==
    LET p == ParseLogLine(line)
    IN  IF ~p.ok THEN [d |-> d, calls |-> <<>>]
        ELSE LET ts == p.out[1]
                 bpm == p.out[2]
                 rr_ms == SubSeq(p.out, 3, Len(p.out))
                 rates == <<[fn |-> "health_check_bradycardia", arg |-> <<bpm>>, ts |-> ts],
                            [fn |-> "health_check_tachycardia", arg |-> <<bpm>>, ts |-> ts]>>
                 d1 == [d EXCEPT !.brady = HealthCheckBradycardia(@, bpm, ts).st,
                                 !.tachy = HealthCheckTachycardia(@, bpm, ts).st]
             IN  IF rr_ms # <<>>
                 THEN [d |-> [d1 EXCEPT !.arr = HealthCheckArrhythmia(@, rr_ms, ts).st],
                       calls |-> Append(rates, [fn |-> "health_check_arrhythmia",
                                                arg |-> rr_ms, ts |-> ts])]
                 ELSE [d |-> d1, calls |-> rates]

(***************************************************************************)
(* Session supervisor: bluetooth.cpp 179-432.  Times are milliseconds of   *)
(* the steady clock; time_point::min() is 0, which no tick precedes.       *)
(***************************************************************************)
kReacquireTimeoutMs == 15000
kReacquireSleepMs == 2000
kReacquireThrottleMs == 10000
kInProgressRetryMs == 3000
kBackoffCapS == 30
kBackoffMaxShift == 5
kBackoffFloorS == 5
kConnectPollTimeoutMs == 20000
kConnectPollSleepMs == 500
kConnectTimeoutRetryMs == 5000

ErrInProgress == "org.bluez.Error.InProgress"
ErrTimeout == "org.freedesktop.DBus.Error.Timeout"
ErrFailed == "org.bluez.Error.Failed"
ErrNotReady == "org.bluez.Error.NotReady"

\* object paths: two enumerations of the sensor, two of its characteristic
DevA == "/dev_A"
DevB == "/dev_B"
CharF == "char000f"
CharG == "char0011"

PathUnder(dev, id) == dev \o "/" \o id

\* an entry of a tick's log: a remote invocation, a poll of a property or a
\* change of the subscription, with its result
Op(call, result) == [call |-> call, result |-> result]

\* the path of the characteristic BlueZ lists, "" when it lists none
CharPath(t) == IF t.dev = "" \/ t.char = "" THEN "" ELSE PathUnder(t.dev, t.char)

\* lines 302-308, on the objects of transport t
PathHasInterface(t, path, iface) ==
    IF iface = "org.bluez.Device1" THEN t.dev # "" /\ path = t.dev
    ELSE IF iface = "org.bluez.GattCharacteristic1" THEN CharPath(t) # "" /\ path = CharPath(t)
    ELSE FALSE

\* lines 217-247: false when the call fails (no such object)
GetDeviceConnected(t, dev_path) == t.dev # "" /\ dev_path = t.dev /\ t.connected

\* lines 249-263: the characteristic under dev_path, "" for nullopt
FindCharByUuidMut(t, dev_path) == ""
FindCharByUuid(t, dev_path) ==
    IF t.dev # "" /\ dev_path = t.dev THEN CharPath(t) ELSE ""

\* lines 270-300: "true", "false", or "unknown" for nullopt
GetCharNotifying(t, ch_path) ==
    IF PathHasInterface(t, ch_path, "org.bluez.GattCharacteristic1")
    THEN t.notifying ELSE "unknown"

\* lines 179-190 on the entries objs of get_managed_objects, in the order of
\* the reply; an optional is a sequence of length 0 or 1
RECURSIVE FirstListed(_, _)
FirstListed(e, names) ==
    IF names = <<>> THEN <<>>
    ELSE IF e.name[1] = Head(names) THEN <<[path |-> e.path, name |-> Head(names)]>>
    ELSE FirstListed(e, Tail(names))

RECURSIVE FindAnyDeviceByNames(_, _)
FindAnyDeviceByNames(objs, names) ==
    IF objs = <<>> THEN <<>>
    ELSE LET e == Head(objs)
             hit == IF e.interface = "org.bluez.Device1" /\ e.name # <<>>
                    THEN FirstListed(e, names) ELSE <<>>
         IN  IF hit # <<>> THEN hit ELSE FindAnyDeviceByNames(Tail(objs), names)

\* lines 323-330: the number of polls of a scan that finds nothing
ReacquirePolls == (kReacquireTimeoutMs + kReacquireSleepMs - 1) \div kReacquireSleepMs

\* lines 320-331, main.cpp 830-841: the calls of a scan of polls polls whose
\* last poll returns path ("" when the device was not found)
ScanOpsMut(start, polls, path) ==
    <<Op("StartDiscovery", start)>>
        \o [k \in 1..polls |->
               Op("find_any_device_by_names", IF k = polls THEN path ELSE "")]
ScanOps(start, polls, path) ==
    <<Op("StartDiscovery", start)>>
        \o [k \in 1..polls |->
               Op("find_any_device_by_names", IF k = polls THEN path ELSE "")]
        \o <<Op("StopDiscovery", "ok")>>

\* lines 317-334.  A listed device is found by the first poll; an unlisted
\* one appears before poll o.found (0: not within the scan) at o.found_path.
ReacquireDevice(t, o) ==
    LET polls == IF t.dev # "" THEN 1
                 ELSE IF o.found = 0 THEN ReacquirePolls
                 ELSE Min(o.found, ReacquirePolls)
        t2 == IF t.dev = "" /\ o.found # 0
              THEN [dev |-> o.found_path, connected |-> FALSE, char |-> "",
                    notifying |-> "false"]
              ELSE t
    IN  [path |-> t2.dev, t |-> t2, elapsed |-> polls * kReacquireSleepMs,
         polls |-> polls,
         ops |-> ScanOps(o.start_disc, polls, t2.dev)]

\* lines 347-361.  c is the tick so far: session s, statics u, transport t,
\* time spent, remote calls made; ret is "the routine has returned".
ReacquireStep(c, now, o) ==
    IF c.s.dev_path = "" \/ ~PathHasInterface(c.t, c.s.dev_path, "org.bluez.Device1")
    THEN IF now < c.u.next_reacquire_attempt THEN [c EXCEPT !.ret = TRUE]
         ELSE LET np == ReacquireDevice(c.t, o)
                  c1 == [c EXCEPT !.t = np.t, !.elapsed = @ + np.elapsed,
                                  !.ops = @ \o np.ops]
              IN  IF np.path # ""
                  THEN [c1 EXCEPT !.s.dev_path = np.path,
                                  !.u.next_reacquire_attempt = now,
                                  !.u.connect_failures = 0]
                  ELSE [c1 EXCEPT !.u.next_reacquire_attempt = now + kReacquireThrottleMs,
                                  !.ret = TRUE]
    ELSE c

\* lines 374-378, in milliseconds
BackoffMut(failures, err_name) ==
    1000 * Min(kBackoffCapS, 2 ^ Min(failures, kBackoffMaxShift))
Backoff(failures, err_name) ==
    LET backoff == Min(kBackoffCapS, 2 ^ Min(failures, kBackoffMaxShift))
    IN  1000 * (IF err_name = ErrTimeout \/ err_name = ErrFailed
                THEN Max(backoff, kBackoffFloorS) ELSE backoff)

\* lines 369-372: the retry time after an in-progress error
InProgressRetryMut(c, now) ==
    [c EXCEPT !.u.next_connect_attempt = now + kInProgressRetryMs,
              !.u.connect_failures = @ + 1, !.ret = TRUE]
InProgressRetry(c, now) ==
    [c EXCEPT !.u.next_connect_attempt = now + kInProgressRetryMs, !.ret = TRUE]

\* lines 394-396: Connected was read true at steady time at
ConnectSucceededMut(c, at) == [c EXCEPT !.u.next_connect_attempt = at]
ConnectSucceeded(c, at) ==
    [c EXCEPT !.u.connect_failures = 0, !.u.next_connect_attempt = at]

\* lines 363-397.  Connect takes o.connect_ms and returns o.connect; after
\* "ok", Connected reads true after o.polls sleeps (-1: not within the poll).
ConnectStep(c, now, o) ==
    IF c.ret \/ GetDeviceConnected(c.t, c.s.dev_path) THEN c
    ELSE IF now < c.u.next_connect_attempt THEN [c EXCEPT !.ret = TRUE]
    ELSE LET c1 == [c EXCEPT !.ops = Append(@, Op("Connect", o.connect)),
                             !.elapsed = @ + o.connect_ms]
         IN  IF o.connect # "ok"
             THEN IF o.connect = ErrInProgress
                  THEN InProgressRetry(c1, now)
                  ELSE [c1 EXCEPT !.u.connect_failures = @ + 1,
                                  !.u.next_connect_attempt =
                                      now + Backoff(c.u.connect_failures + 1, o.connect),
                                  !.ret = TRUE]
             ELSE IF o.polls < 0
             THEN [c1 EXCEPT !.elapsed = @ + kConnectPollTimeoutMs,
                             !.ops = Append(@, Op("Connected", "false")),
                             !.u.connect_failures = @ + 1,
                             !.u.next_connect_attempt =
                                 now + c1.elapsed + kConnectPollTimeoutMs
                                     + kConnectTimeoutRetryMs,
                             !.ret = TRUE]
             ELSE LET slept == kConnectPollSleepMs
                                 * Min(o.polls, kConnectPollTimeoutMs \div kConnectPollSleepMs)
                  IN  ConnectSucceeded(
                          [c1 EXCEPT !.elapsed = @ + slept,
                                     !.ops = Append(@, Op("Connected", "true")),
                                     !.t.connected = TRUE],
                          now + c1.elapsed + slept)

\* line 407: if (slot) { sd_bus_slot_unref(slot); slot = nullptr; }
RECURSIVE RemoveOne(_, _)
RemoveOne(q, x) ==
    IF q = <<>> THEN <<>>
    ELSE IF Head(q) = x THEN Tail(q) ELSE <<Head(q)>> \o RemoveOne(Tail(q), x)

ReleaseSlotMut(c) == [c EXCEPT !.s.slot = ""]
ReleaseSlot(c) ==
    IF c.s.slot # ""
    THEN [c EXCEPT !.s.matches = RemoveOne(@, c.s.slot), !.s.slot = "",
                   !.ops = Append(@, Op("sd_bus_slot_unref", c.s.slot))]
    ELSE c

\* line 413: what a failing sd_bus_add_match leads to
AddMatchFailed(c) == [c EXCEPT !.ret = TRUE, !.exited = TRUE]

\* lines 401-404: no characteristic with the UUID under the device
CharAbsentMut(c) == [c EXCEPT !.s.ch_path = "", !.ret = TRUE]
CharAbsent(c) == [c EXCEPT !.ret = TRUE]

\* lines 399-416
CharStep(c, o) ==
    IF c.ret THEN c
    ELSE IF c.s.ch_path = ""
            \/ ~PathHasInterface(c.t, c.s.ch_path, "org.bluez.GattCharacteristic1")
    THEN LET np == FindCharByUuid(c.t, c.s.dev_path)
         IN  IF np = "" THEN CharAbsent(c)
             ELSE IF np # c.s.ch_path
             THEN LET c1 == ReleaseSlot(c)
                      c2 == [c1 EXCEPT !.s.ch_path = np,
                                       !.ops = @ \o <<Op("ch_path", np),
                                                      Op("sd_bus_add_match", o.add_match)>>]
                  IN  IF o.add_match = "ok"
                      THEN [c2 EXCEPT !.s.slot = np, !.s.matches = Append(@, np)]
                      ELSE AddMatchFailed(c2)
             ELSE c
    ELSE c

\* line 420: StartNotify is needed
NotifyWantedMut(n) == TRUE
NotifyWanted(n) == n # "true"

\* lines 424-426: StartNotify failed
StartNotifyFailedMut(c) == [c EXCEPT !.s.ch_path = ""]
StartNotifyFailed(c) == c

\* lines 418-431
NotifyStep(c, o) ==
    IF c.ret \/ c.s.ch_path = "" THEN c
    ELSE IF NotifyWanted(GetCharNotifying(c.t, c.s.ch_path))
    THEN LET c1 == [c EXCEPT !.ops = Append(@, Op("StartNotify", o.start_notify))]
         IN  IF o.start_notify = "ok" THEN [c1 EXCEPT !.t.notifying = "true"]
             ELSE StartNotifyFailed(c1)
    ELSE c

\* lines 336-432: the routine at steady time now, under the outcomes o of
\* its remote calls.  GetManagedObjects failing (o.objects) is fatal at its
\* first use, bluetooth.cpp 87: line 347, or the first poll of the scan.
EnsureConnectedAndNotifying(s, u, t, now, o) ==
    LET c0 == [s |-> s, u |-> u, t |-> t, elapsed |-> 0, ops |-> <<>>,
               ret |-> FALSE, exited |-> FALSE]
    IN  IF o.objects = "fail"
        THEN IF s.dev_path # ""
             THEN [c0 EXCEPT !.ops = <<Op("GetManagedObjects", "fail")>>, !.ret = TRUE,
                             !.exited = TRUE]
             ELSE IF now < u.next_reacquire_attempt THEN [c0 EXCEPT !.ret = TRUE]
             ELSE [c0 EXCEPT !.ops = <<Op("StartDiscovery", o.start_disc),
                                       Op("GetManagedObjects", "fail")>>,
                             !.elapsed = kReacquireSleepMs,
                             !.ret = TRUE, !.exited = TRUE]
        ELSE NotifyStep(CharStep(ConnectStep(ReacquireStep(c0, now, o), now, o), o), o)

(***************************************************************************)
(* Startup: main.cpp 819-916.  Each step returns the transport after it,   *)
(* the time it took, its remote calls and how it ended: "ok", "failure"    *)
(* (return EXIT_FAILURE) or "died" (die(), bluetooth.cpp 34-37).           *)
(***************************************************************************)
kFirstAcquireTimeoutMs == 90000
kFirstAcquireSleepMs == 2000
kFirstConnectTimeoutMs == 20000
kFirstConnectSleepMs == 500

\* main.cpp 833-839: the number of polls of a first scan that finds nothing
FirstAcquirePolls ==
    (kFirstAcquireTimeoutMs + kFirstAcquireSleepMs - 1) \div kFirstAcquireSleepMs

\* main.cpp 843-846: a scan that did not find the device ends the process
ScanResultMut(found) == "ok"
ScanResult(found) == IF found THEN "ok" ELSE "failure"

\* main.cpp 825-847.  A listed device is found without a scan; an unlisted
\* one appears before poll o.found (0: never) at o.found_path.
FirstAcquisition(t, o) ==
    IF o.objects = "fail"
    THEN [path |-> "", t |-> t, elapsed |-> 0,
          ops |-> <<Op("GetManagedObjects", "fail")>>, status |-> "died"]
    ELSE IF t.dev # ""
    THEN [path |-> t.dev, t |-> t, elapsed |-> 0,
          ops |-> <<Op("find_any_device_by_names", t.dev)>>, status |-> "ok"]
    ELSE IF o.start_disc # "ok"
    THEN [path |-> "", t |-> t, elapsed |-> 0,
          ops |-> <<Op("find_any_device_by_names", ""),
                    Op("StartDiscovery", o.start_disc)>>,
          status |-> "died"]
    ELSE LET found == o.found # 0 /\ o.found <= FirstAcquirePolls
             polls == IF found THEN o.found ELSE FirstAcquirePolls
             t2 == IF found
                   THEN [dev |-> o.found_path, connected |-> FALSE, char |-> "",
                         notifying |-> "false"]
                   ELSE t
         IN  [path |-> t2.dev, t |-> t2, elapsed |-> polls * kFirstAcquireSleepMs,
              ops |-> <<Op("find_any_device_by_names", "")>>
                      \o ScanOps("ok", polls, t2.dev),
              status |-> ScanResult(found)]

\* main.cpp 853-866.  Connect returns o.connect after o.connect_ms; after
\* "ok", Connected reads true after o.polls sleeps (-1: not within the
\* poll); listed: BlueZ has resolved the sensor's services by then.
FirstConnect(t, path, o, listed) ==
    IF GetDeviceConnected(t, path)
    THEN [t |-> t, elapsed |-> 0, ops |-> <<>>, status |-> "ok"]
    ELSE IF o.connect # "ok"
    THEN [t |-> t, elapsed |-> o.connect_ms, ops |-> <<Op("Connect", o.connect)>>,
          status |-> "died"]
    ELSE IF o.polls < 0
    THEN [t |-> t, elapsed |-> o.connect_ms + kFirstConnectTimeoutMs,
          ops |-> <<Op("Connect", "ok"), Op("Connected", "false")>>,
          status |-> "failure"]
    ELSE [t |-> [t EXCEPT !.connected = TRUE,
                          !.char = IF @ = "" /\ listed THEN CharF ELSE @],
          elapsed |-> o.connect_ms
                        + kFirstConnectSleepMs
                            * Min(o.polls, kFirstConnectTimeoutMs \div kFirstConnectSleepMs),
          ops |-> <<Op("Connect", "ok"), Op("Connected", "true")>>,
          status |-> "ok"]

\* main.cpp 883-906: the characteristic, StartNotify, the subscription
FirstSubscribe(t, path, o) ==
    LET ch == FindCharByUuid(t, path)
        none == [dev_path |-> path, ch_path |-> "", slot |-> "", matches |-> <<>>]
    IN  IF ch = ""
        THEN [s |-> none, t |-> t, ops |-> <<>>, status |-> "failure", elapsed |-> 0]
        ELSE IF o.start_notify # "ok"
        THEN [s |-> none, t |-> t,
              ops |-> <<Op("StartNotify", o.start_notify)>>, status |-> "died", elapsed |-> 0]
        ELSE IF o.add_match # "ok"
        THEN [s |-> [none EXCEPT !.ch_path = ch], t |-> [t EXCEPT !.notifying = "true"],
              ops |-> <<Op("StartNotify", "ok"), Op("sd_bus_add_match", o.add_match)>>,
              status |-> "died", elapsed |-> 0]
        ELSE [s |-> [dev_path |-> path, ch_path |-> ch, slot |-> ch, matches |-> <<ch>>],
              t |-> [t EXCEPT !.notifying = "true"],
              ops |-> <<Op("StartNotify", "ok"), Op("sd_bus_add_match", "ok")>>,
              status |-> "ok", elapsed |-> 0]

\* the session after startup (main.cpp 819-916): device found and connected,
\* the characteristic notifying, one subscription on its path
InitLink ==
    /\ session = [dev_path |-> DevA, ch_path |-> PathUnder(DevA, CharF),
                  slot |-> PathUnder(DevA, CharF),
                  matches |-> <<PathUnder(DevA, CharF)>>]
    /\ sup = [next_reacquire_attempt |-> 0, next_connect_attempt |-> 0,
              connect_failures |-> 0]
    /\ transport = [dev |-> DevA, connected |-> TRUE, char |-> CharF,
                    notifying |-> "true"]
    /\ steady = 0
    /\ loop = "wait"

\* what BlueZ does to the sensor's objects between two ticks
OtherChar(id) == IF id = CharF THEN CharG ELSE CharF

EventPossible(t, ev) ==
    CASE ev = "none" -> TRUE
      [] ev = "link_lost" -> t.dev # "" /\ t.connected
      [] ev = "removed" -> t.dev # ""
      [] ev = "char_moved" -> t.dev # "" /\ t.connected /\ t.char # ""
      [] ev = "char_gone" -> t.dev # "" /\ t.char # ""
      [] ev = "notify_off" -> CharPath(t) # "" /\ t.notifying = "true"
      [] ev = "notify_unreadable" -> CharPath(t) # "" /\ t.notifying # "unknown"
      [] ev = "char_listed" -> t.dev # "" /\ t.char = ""
      [] OTHER -> FALSE

TransportEvent(t, ev) ==
    CASE ev = "link_lost" -> [t EXCEPT !.connected = FALSE, !.notifying = "false"]
      [] ev = "removed" -> [dev |-> "", connected |-> FALSE, char |-> "",
                            notifying |-> "false"]
      [] ev = "char_moved" -> [t EXCEPT !.char = OtherChar(@), !.notifying = "false"]
      [] ev = "char_gone" -> [t EXCEPT !.char = "", !.notifying = "false"]
      [] ev = "notify_off" -> [t EXCEPT !.notifying = "false"]
      [] ev = "notify_unreadable" -> [t EXCEPT !.notifying = "unknown"]
      [] ev = "char_listed" -> [t EXCEPT !.char = CharF, !.notifying = "false"]
      [] OTHER -> t

(***************************************************************************)
(* Inputs.                                                                 *)
(***************************************************************************)
\* flags octets: every combination of the bits the decoder reads (0x01,
\* 0x08, 0x10), and two octets with other bits set
FlagVals == {0, 1, 8, 9, 16, 17, 24, 25, 6, 255}
DataVals == {0, 3, 192, 255}

SeqsUpTo(S, n) == UNION {[1..k -> S] : k \in 0..n}

DecodeFrames ==
    {<<>>} \cup {<<f>> \o d : f \in FlagVals, d \in SeqsUpTo(DataVals, MaxDataLen)}

\* frames the sensor sends in the live runs
PipelineFrames ==
    { <<>>,
      <<1>>,
      <<0, 55>>,
      <<0, 110>>,
      <<16, 72, 0, 192, 3, 64, 3>>,
      <<17, 72, 0, 192, 3, 64, 3>> }

BradyBpms == {0, 50, 55, 59, 60, 65}
TachyBpms == {65, 100, 101, 120, 150}
RateTs == {0, 500, 1500}

PauseRRVals == {200, 249, 250, 2500, 2501, 3000}
PauseTs == {0, 1000, 1001}
\* the pattern in one call and across calls, values that end an episode, and
\* an abnormal value before the value that ends it
EctopicLists ==
    { <<800, 620, 1100>>, <<750>>, <<800>>, <<750, 800>>, <<3000, 800>> }
EctopicTs == {0, 1000, 1001, 3000}

RhythmRRVals == {249, 250, 620, 750, 800, 1000, 1100, 2500, 2501, 3000}
RhythmTs == {0}
RRListLens == {1, 2}

RRLists(S) == UNION {[1..k -> S] : k \in RRListLens}

\* long RR lists: an irregular rhythm (each of 16 values 8 times in 128,
\* rising twice and falling once), a steady one, and out-of-range values
IrregularRR(n) == [i \in 1..n |-> 700 + 20 * ((5 * i) % 16)]
SteadyRR(n) == [i \in 1..n |-> 800 + (i % 4)]
HistoryLists == {IrregularRR(128), SteadyRR(257), <<3000, 920, 200>>}
HistoryTs == {0, 2000}

\* a history one value short of the window; 128 values that clean to 126; a
\* full irregular window; a single value
ScreenLists ==
    { SteadyRR(127), SteadyRR(125) \o <<620, 1100, 750>>, IrregularRR(128), <<800>> }
ScreenTs == {0, 1001, 2000}

\* samples whose timestamps go forwards and backwards: a slow, a normal and
\* a fast rate; a normal value, a pause, and a short-long-short pattern
SampleBpms == {50, 65, 110}
SampleRRs == {<<800>>, <<3000>>, <<1000, 620, 1100, 800>>}
SampleTs == {0, 500, 2000}

\* RR values one per sample, 1001 ms apart: normal values whose quotients
\* lie on both sides of the three thresholds, and an abnormal one
PatternVals == {620, 800, 1000, 1100, 3000}

\* histories of normal values with many short-long-short patterns, some of
\* them back to back, and a quotient on a threshold (800/1000)
CleanVals == {620, 800, 1000, 1100}
CleanLists == SeqsUpTo(CleanVals, MaxCleanLen)

\* lines of a log: empty, one field, one field and a comma, a leading
\* comma, two fields (a slow rate, a normal one), two commas in a row, a
\* trailing comma, a letter, and four fields
LogLines ==
    { <<>>,
      <<"7">>,
      <<"7", ",">>,
      <<",", "5", "0">>,
      <<"0", ",", "5", "0">>,
      <<"9", ",", "6", "5">>,
      <<"5", ",", ",", "5", "0">>,
      <<"5", ",", "5", "0", ",">>,
      <<"5", ",", "5", "0", "x">>,
      <<"3", ",", "1", "2", "0", ",", "3", "0", "0", "0", ",", "8", "0", "0">> }

\* outcomes of a tick's remote calls: every call succeeds, the sensor is
\* found by the first poll of a scan and connects within two sleeps
OkOutcome ==
    [objects |-> "ok", start_disc |-> "ok", found |-> 1, found_path |-> DevA,
     connect |-> "ok", connect_ms |-> 0, polls |-> 2, add_match |-> "ok",
     start_notify |-> "ok"]

\* a bus timeout is reported after the 25 s the bus waits for a reply
BusTimeoutMs == 25000

ConnectOutcomes ==
    { OkOutcome,
      [OkOutcome EXCEPT !.polls = -1],
      [OkOutcome EXCEPT !.connect = ErrInProgress],
      [OkOutcome EXCEPT !.connect = ErrFailed],
      [OkOutcome EXCEPT !.connect = ErrNotReady],
      [OkOutcome EXCEPT !.connect = ErrTimeout, !.connect_ms = BusTimeoutMs] }

ConnectGaps == {500, 2500, 32000}

\* main.cpp 56-57
kTargetNameH9 == "Polar H9 EA190E24"
kTargetNameH10 == "Polar H10 8A8F192B"

\* entries of a reply of GetManagedObjects: both sensors, another device, a
\* device without a name, and an adapter that carries a sensor's name
ObjectEntries ==
    { [path |-> "/hci0/dev_H10", interface |-> "org.bluez.Device1", name |-> <<kTargetNameH10>>],
      [path |-> "/hci0/dev_H9", interface |-> "org.bluez.Device1", name |-> <<kTargetNameH9>>],
      [path |-> "/hci0/dev_X", interface |-> "org.bluez.Device1", name |-> <<"Other">>],
      [path |-> "/hci0/dev_N", interface |-> "org.bluez.Device1", name |-> <<>>],
      [path |-> "/hci0", interface |-> "org.bluez.Adapter1", name |-> <<kTargetNameH10>>] }

MaxSnapshot == 3

Injective(q) == \A i, j \in 1..Len(q) : q[i] = q[j] => i = j

Snapshots == {q \in SeqsUpTo(ObjectEntries, MaxSnapshot) : Injective(q)}

\* main.cpp 824, and the other orders a caller can pass
NameLists ==
    { <<kTargetNameH10, kTargetNameH9>>, <<kTargetNameH9, kTargetNameH10>>,
      <<kTargetNameH10>> }

\* one outcome per call that can go wrong, and a sensor that comes back
\* under another path
MaintainOutcomes ==
    { OkOutcome,
      [OkOutcome EXCEPT !.objects = "fail"],
      [OkOutcome EXCEPT !.found = 0],
      [OkOutcome EXCEPT !.found = 3, !.found_path = DevB],
      [OkOutcome EXCEPT !.connect = ErrInProgress],
      [OkOutcome EXCEPT !.polls = -1],
      [OkOutcome EXCEPT !.add_match = "fail"],
      [OkOutcome EXCEPT !.start_notify = "fail"] }

MaintainEvents ==
    {"none", "link_lost", "removed", "char_moved", "char_gone", "notify_off",
     "notify_unreadable", "char_listed"}

\* the timeout of sd_bus_wait, main.cpp 40
MaintainGaps == {500}

\* startup: no sensor listed; a listed sensor with the link down, with the
\* link up, and with the link up but its characteristic not listed
StartupTransports ==
    { [dev |-> "", connected |-> FALSE, char |-> "", notifying |-> "false"],
      [dev |-> DevA, connected |-> FALSE, char |-> CharF, notifying |-> "false"],
      [dev |-> DevA, connected |-> TRUE, char |-> CharF, notifying |-> "false"],
      [dev |-> DevA, connected |-> TRUE, char |-> "", notifying |-> "false"] }

\* one outcome per call of the startup that can go wrong; a sensor found by
\* the last poll of the first scan, and one found by the third
StartupOutcomes ==
    { OkOutcome,
      [OkOutcome EXCEPT !.objects = "fail"],
      [OkOutcome EXCEPT !.start_disc = "fail"],
      [OkOutcome EXCEPT !.found = 0],
      [OkOutcome EXCEPT !.found = FirstAcquirePolls],
      [OkOutcome EXCEPT !.found = 3, !.found_path = DevB],
      [OkOutcome EXCEPT !.connect = ErrFailed],
      [OkOutcome EXCEPT !.polls = -1],
      [OkOutcome EXCEPT !.start_notify = "fail"],
      [OkOutcome EXCEPT !.add_match = "fail"] }

\* in the event loop after the startup: the sensor is removed or its link
\* drops, and the scan or the poll of the tick runs into its timeout
StartupLoopEvents == {"none", "removed", "link_lost"}
StartupLoopOutcomes ==
    { OkOutcome,
      [OkOutcome EXCEPT !.found = 0],
      [OkOutcome EXCEPT !.found = 3, !.found_path = DevB],
      [OkOutcome EXCEPT !.polls = -1] }

\* the outcomes after which the process is still running
RecoverOutcomes ==
    {o \in MaintainOutcomes \cup ConnectOutcomes :
        o.objects = "ok" /\ o.add_match = "ok"}

\* the time between two ticks once the transport is healthy
RecoverGap == 5000

\* on a healthy transport the characteristic of a listed device is listed
HealthyEvent(t) == IF EventPossible(t, "char_listed") THEN "char_listed" ELSE "none"

HealthySession ==
    [dev_path |-> DevA, ch_path |-> PathUnder(DevA, CharF),
     slot |-> PathUnder(DevA, CharF), matches |-> <<PathUnder(DevA, CharF)>>]

LinkDown == [dev |-> DevA, connected |-> FALSE, char |-> CharF, notifying |-> "false"]

\* the link just lost; and the link down since 0 with four Connect calls
\* (at 0, 2000, 6000, 14000) refused with NotReady
ConnectStarts ==
    { [s |-> HealthySession, t |-> LinkDown, steady |-> 0,
       u |-> [next_reacquire_attempt |-> 0, next_connect_attempt |-> 0,
              connect_failures |-> 0]],
      [s |-> HealthySession, t |-> LinkDown, steady |-> 14000,
       u |-> [next_reacquire_attempt |-> 0, next_connect_attempt |-> 30000,
              connect_failures |-> 4]] }

(***************************************************************************)
(* Initial states.                                                         *)
(***************************************************************************)
InitStatics ==
    /\ s_last_line = ""
    /\ s_suppressed = 0
    /\ stdout = <<>>
    /\ brady = BradyInit
    /\ tachy = TachyInit
    /\ arr = ArrInit
    /\ trace = <<>>
    /\ InitLink

Init ==
    /\ msg = <<>>
    /\ pending = FALSE
    /\ clock = ClockStart
    /\ g_health_warnings \in BOOLEAN
    /\ InitStatics

\* one notification in flight, its payload any frame of DecodeFrames
InitDecode ==
    /\ msg \in DecodeFrames
    /\ pending = TRUE
    /\ clock = ClockStart
    /\ g_health_warnings \in BOOLEAN
    /\ InitStatics

\* the detectors driven directly, as feat_analyze_log.cpp 56-60 does
InitFeed ==
    /\ msg = <<>>
    /\ pending = FALSE
    /\ clock = ClockStart
    /\ g_health_warnings = TRUE
    /\ InitStatics

\* the supervisor started in one of the states starts
InitSupervisor(starts) ==
    /\ msg = <<>>
    /\ pending = FALSE
    /\ clock = ClockStart
    /\ g_health_warnings = TRUE
    /\ s_last_line = ""
    /\ s_suppressed = 0
    /\ stdout = <<>>
    /\ brady = BradyInit
    /\ tachy = TachyInit
    /\ arr = ArrInit
    /\ trace = <<>>
    /\ loop = "wait"
    /\ \E st \in starts :
          /\ session = st.s
          /\ sup = st.u
          /\ transport = st.t
          /\ steady = st.steady

\* the process at the start of run_impl (main.cpp 819): nothing acquired
InitStartup ==
    /\ msg = <<>>
    /\ pending = FALSE
    /\ clock = ClockStart
    /\ g_health_warnings = TRUE
    /\ s_last_line = ""
    /\ s_suppressed = 0
    /\ stdout = <<>>
    /\ brady = BradyInit
    /\ tachy = TachyInit
    /\ arr = ArrInit
    /\ trace = <<>>
    /\ loop = "start"
    /\ session = [dev_path |-> "", ch_path |-> "", slot |-> "", matches |-> <<>>]
    /\ sup = [next_reacquire_attempt |-> 0, next_connect_attempt |-> 0,
              connect_failures |-> 0]
    /\ transport \in StartupTransports
    /\ steady = 0

(***************************************************************************)
(* Actions.                                                                *)
(***************************************************************************)
\* the wall clock advances
Tick ==
    /\ clock < ClockStart + MaxTicks
    /\ clock' = clock + 1
    /\ UNCHANGED <<msg, pending, g_health_warnings, s_last_line, s_suppressed,
                   stdout, brady, tachy, arr, trace>>
    /\ UNCHANGED link_vars

\* the sensor notifies: a PropertiesChanged signal with payload frame is queued
Notify(frame) ==
    /\ ~pending
    /\ Len(trace) < MaxNotifications
    /\ msg' = frame
    /\ pending' = TRUE
    /\ UNCHANGED <<clock, g_health_warnings, s_last_line, s_suppressed,
                   stdout, brady, tachy, arr, trace>>
    /\ UNCHANGED link_vars

\* bluetooth.cpp 530: the duplicate test
IsDuplicate(last, out) == last # "" /\ out = last

\* bluetooth.cpp 535: the rate detectors are called for a sample with a bpm
RateCheckedMut(bpm) == TRUE
RateChecked(bpm) == bpm >= 0

\* bluetooth.cpp 435-556: the handler, for the "Value" entry of the signal.
\* health_check_arrhythmia is given the sample's timestamp, as the replay
\* driver gives it (feat_analyze_log.cpp 59).
PropsChangedCb ==
    /\ pending
    /\ LET t == clock
           p == ParseHRM(msg)
           out == FormatLine(t, p.bpm, p.rr_ms)
           rec == [op |-> "notify", t |-> t, bytes |-> msg, bpm |-> p.bpm,
                   rr_ms |-> p.rr_ms, reads |-> p.reads, line |-> out]
       IN  IF IsDuplicate(s_last_line, out)
           THEN /\ s_suppressed' = s_suppressed + 1
                /\ trace' = Append(trace, rec @@
                                [emitted |-> FALSE, calls |-> {}, out |-> <<>>])
                /\ UNCHANGED <<s_last_line, stdout, brady, tachy, arr>>
           ELSE LET rate == g_health_warnings /\ RateChecked(p.bpm)
                    rhythm == g_health_warnings /\ p.rr_ms # <<>>
                    rb == HealthCheckBradycardia(brady, p.bpm, t)
                    rt == HealthCheckTachycardia(tachy, p.bpm, t)
                    ra == HealthCheckArrhythmia(arr, p.rr_ms, t)
                IN  /\ brady' = IF rate THEN rb.st ELSE brady
                    /\ tachy' = IF rate THEN rt.st ELSE tachy
                    /\ arr' = IF rhythm THEN ra.st ELSE arr
                    /\ stdout' = Append(stdout, out)
                    /\ s_last_line' = out
                    /\ trace' = Append(trace, rec @@
                          [emitted |-> TRUE,
                           calls |-> (IF rate THEN {"bradycardia", "tachycardia"} ELSE {})
                                     \cup (IF rhythm THEN {"arrhythmia"} ELSE {}),
                           out |-> (IF rate THEN rb.out \o rt.out ELSE <<>>)
                                   \o (IF rhythm THEN Flatten(ra.by_value) \o ra.af_out
                                       ELSE <<>>)])
                    /\ UNCHANGED s_suppressed
    /\ pending' = FALSE
    /\ msg' = <<>>
    /\ UNCHANGED <<clock, g_health_warnings>>
    /\ UNCHANGED link_vars

\* health_check_bradycardia(bpm, ts_ms)
FeedBradycardia(bpm, ts_ms) ==
    /\ Len(trace) < MaxSamples
    /\ LET r == HealthCheckBradycardia(brady, bpm, ts_ms)
       IN  /\ brady' = r.st
           /\ trace' = Append(trace, [op |-> "bradycardia", bpm |-> bpm,
                                      ts_ms |-> ts_ms, out |-> r.out])
    /\ UNCHANGED <<msg, pending, clock, g_health_warnings, s_last_line,
                   s_suppressed, stdout, tachy, arr>>
    /\ UNCHANGED link_vars

\* health_check_tachycardia(bpm, ts_ms)
FeedTachycardia(bpm, ts_ms) ==
    /\ Len(trace) < MaxSamples
    /\ LET r == HealthCheckTachycardia(tachy, bpm, ts_ms)
       IN  /\ tachy' = r.st
           /\ trace' = Append(trace, [op |-> "tachycardia", bpm |-> bpm,
                                      ts_ms |-> ts_ms, out |-> r.out])
    /\ UNCHANGED <<msg, pending, clock, g_health_warnings, s_last_line,
                   s_suppressed, stdout, brady, arr>>
    /\ UNCHANGED link_vars

\* the RR values fed so far, over all calls
RECURSIVE FedRR(_)
FedRR(tr) == IF tr = <<>> THEN <<>> ELSE Head(tr).rr_ms \o FedRR(Tail(tr))

\* health_check_arrhythmia(rr_ms, ts_ms), at most cap values in all
FeedArrhythmia(rr_ms, ts_ms, cap) ==
    /\ Len(FedRR(trace)) + Len(rr_ms) <= cap
    /\ LET r == HealthCheckArrhythmia(arr, rr_ms, ts_ms)
       IN  /\ arr' = r.st
           /\ trace' = Append(trace, [op |-> "arrhythmia", rr_ms |-> rr_ms,
                                      ts_ms |-> ts_ms, by_value |-> r.by_value,
                                      af_out |-> r.af_out])
    /\ UNCHANGED <<msg, pending, clock, g_health_warnings, s_last_line,
                   s_suppressed, stdout, brady, tachy>>
    /\ UNCHANGED link_vars

\* feat_analyze_log.cpp 56-60: the three detectors on one sample
FeedSample(bpm, rr_ms, ts_ms) ==
    /\ LET rb == HealthCheckBradycardia(brady, bpm, ts_ms)
           rt == HealthCheckTachycardia(tachy, bpm, ts_ms)
           ra == HealthCheckArrhythmia(arr, rr_ms, ts_ms)
       IN  /\ brady' = rb.st
           /\ tachy' = rt.st
           /\ arr' = IF rr_ms # <<>> THEN ra.st ELSE arr
           /\ trace' = Append(trace,
                 [op |-> "sample", bpm |-> bpm, rr_ms |-> rr_ms, ts_ms |-> ts_ms,
                  brady |-> brady, tachy |-> tachy, arr |-> arr,
                  out |-> rb.out \o rt.out,
                  by_value |-> IF rr_ms # <<>> THEN ra.by_value ELSE <<>>,
                  af_out |-> IF rr_ms # <<>> THEN ra.af_out ELSE <<>>])
    /\ UNCHANGED <<msg, pending, clock, g_health_warnings, s_last_line,
                   s_suppressed, stdout>>
    /\ UNCHANGED link_vars

\* main.cpp 825, bluetooth.cpp 327: a search of the snapshot objs
FindDevice(objs, names) ==
    /\ trace' = Append(trace, [op |-> "find", objs |-> objs, names |-> names,
                               found |-> FindAnyDeviceByNames(objs, names)])
    /\ UNCHANGED pipeline_vars
    /\ UNCHANGED link_vars

\* feat_health_arrythmia.cpp 231: the cleaning pass on a history rr
CleanHistory(rr) ==
    /\ trace' = Append(trace, [op |-> "clean", rr |-> rr, out |-> DashStyleCleanRR(rr)])
    /\ UNCHANGED pipeline_vars
    /\ UNCHANGED link_vars

\* feat_analyze_log.cpp 44-63: one line of the log
ReplayLine(line) ==
    /\ LET r == AnalyzeLine([brady |-> brady, tachy |-> tachy, arr |-> arr], line)
       IN  /\ brady' = r.d.brady
           /\ tachy' = r.d.tachy
           /\ arr' = r.d.arr
           /\ trace' = Append(trace, [op |-> "line", line |-> line, calls |-> r.calls,
                                      brady |-> brady, tachy |-> tachy, arr |-> arr,
                                      brady2 |-> r.d.brady, tachy2 |-> r.d.tachy,
                                      arr2 |-> r.d.arr])
    /\ UNCHANGED <<msg, pending, clock, g_health_warnings, s_last_line,
                   s_suppressed, stdout>>
    /\ UNCHANGED link_vars

\* main.cpp 920-949: the rest of a loop iteration after a tick, sd_bus_wait
\* and the dispatch of what arrived; gap is the time it takes, ev what
\* happened to the sensor's objects meanwhile
BusWait(gap, ev) ==
    /\ loop = "wait"
    /\ EventPossible(transport, ev)
    /\ transport' = TransportEvent(transport, ev)
    /\ steady' = steady + gap
    /\ loop' = "maintain"
    /\ UNCHANGED <<session, sup, trace>>
    /\ UNCHANGED pipeline_vars

\* main.cpp 922, bluetooth.cpp 336-432: one maintenance tick under the
\* outcomes o of its remote calls; log says whether the tick is recorded
MaintenanceTick(o, log) ==
    /\ loop = "maintain"
    /\ LET r == EnsureConnectedAndNotifying(session, sup, transport, steady, o)
       IN  /\ session' = r.s
           /\ sup' = r.u
           /\ transport' = r.t
           /\ steady' = steady + r.elapsed
           /\ loop' = IF r.exited THEN "exited" ELSE "wait"
           /\ trace' = IF log
                       THEN Append(trace, [op |-> "maintain", now |-> steady,
                                           s |-> session, u |-> sup, t |-> transport,
                                           ops |-> r.ops, elapsed |-> r.elapsed,
                                           s2 |-> r.s, u2 |-> r.u, t2 |-> r.t,
                                           exited |-> r.exited])
                       ELSE trace
    /\ UNCHANGED pipeline_vars

\* the record of a startup step in the trace
StartupRecord(op, r, s2) ==
    [op |-> op, now |-> steady, s |-> session, u |-> sup, t |-> transport,
     ops |-> r.ops, elapsed |-> r.elapsed, s2 |-> s2, u2 |-> sup, t2 |-> r.t,
     exited |-> r.status # "ok", status |-> r.status]

\* main.cpp 825-849: find the sensor, scanning for it if it is not listed
StartupAcquire(o) ==
    /\ loop = "start"
    /\ LET r == FirstAcquisition(transport, o)
           s2 == [session EXCEPT !.dev_path = r.path]
       IN  /\ session' = s2
           /\ transport' = r.t
           /\ steady' = steady + r.elapsed
           /\ loop' = IF r.status = "ok" THEN "connect" ELSE "exited"
           /\ trace' = Append(trace, StartupRecord("acquire", r, s2))
    /\ UNCHANGED sup
    /\ UNCHANGED pipeline_vars

\* main.cpp 853-867: connect to the sensor
StartupConnect(o, listed) ==
    /\ loop = "connect"
    /\ LET r == FirstConnect(transport, session.dev_path, o, listed)
       IN  /\ transport' = r.t
           /\ steady' = steady + r.elapsed
           /\ loop' = IF r.status = "ok" THEN "subscribe" ELSE "exited"
           /\ trace' = Append(trace, StartupRecord("connect", r, session))
    /\ UNCHANGED <<session, sup>>
    /\ UNCHANGED pipeline_vars

\* main.cpp 883-916: subscribe, and enter the event loop
StartupSubscribe(o) ==
    /\ loop = "subscribe"
    /\ LET r == FirstSubscribe(transport, session.dev_path, o)
       IN  /\ session' = r.s
           /\ transport' = r.t
           /\ loop' = IF r.status = "ok" THEN "wait" ELSE "exited"
           /\ trace' = Append(trace, StartupRecord("subscribe", r, r.s))
    /\ UNCHANGED <<sup, steady>>
    /\ UNCHANGED pipeline_vars

(***************************************************************************)
(* Specifications.                                                         *)
(***************************************************************************)
\* the live notification pipeline
Next ==
    \/ Tick
    \/ \E frame \in PipelineFrames : Notify(frame)
    \/ PropsChangedCb

Spec == Init /\ [][Next]_vars

\* the decoder on every frame of DecodeFrames
NextDecode == PropsChangedCb

SpecDecode == InitDecode /\ [][NextDecode]_vars

NextBrady == \E bpm \in BradyBpms, ts \in RateTs : FeedBradycardia(bpm, ts)

SpecBrady == InitFeed /\ [][NextBrady]_vars

NextTachy == \E bpm \in TachyBpms, ts \in RateTs : FeedTachycardia(bpm, ts)

SpecTachy == InitFeed /\ [][NextTachy]_vars

NextPause ==
    \E rr_ms \in RRLists(PauseRRVals), ts \in PauseTs :
        FeedArrhythmia(rr_ms, ts, MaxPauseRR)

SpecPause == InitFeed /\ [][NextPause]_vars

\* one RR value per call, normal and abnormal values mixed
NextRhythm ==
    \E rr \in RhythmRRVals, ts \in RhythmTs :
        FeedArrhythmia(<<rr>>, ts, MaxRhythmRR)

SpecRhythm == InitFeed /\ [][NextRhythm]_vars

\* samples with timestamps, around an ectopic episode
NextEctopic ==
    \E rr_ms \in EctopicLists, ts \in EctopicTs :
        /\ Len(trace) < MaxEctopicCalls
        /\ FeedArrhythmia(rr_ms, ts, 3 * MaxEctopicCalls)

SpecEctopic == InitFeed /\ [][NextEctopic]_vars

\* whole lists per call, long enough to fill the analysis window and to
\* overflow the history
NextHistory ==
    \E rr_ms \in HistoryLists, ts \in HistoryTs :
        /\ Len(trace) < MaxHistoryCalls
        /\ FeedArrhythmia(rr_ms, ts, MaxHistoryCalls * 257)

SpecHistory == InitFeed /\ [][NextHistory]_vars

\* histories around the size of the analysis window
NextScreen ==
    \E rr_ms \in ScreenLists, ts \in ScreenTs :
        /\ Len(trace) < MaxScreenCalls
        /\ FeedArrhythmia(rr_ms, ts, MaxScreenCalls * 128)

SpecScreen == InitFeed /\ [][NextScreen]_vars

\* the supervisor on a link that is down: ticks and what Connect answers
NextConnect ==
    \/ \E gap \in ConnectGaps :
          /\ Len(trace) < MaxMaintTicks
          /\ BusWait(gap, "none")
    \/ \E o \in ConnectOutcomes : MaintenanceTick(o, TRUE)

InitConnect == InitSupervisor(ConnectStarts)

SpecConnect == InitConnect /\ [][NextConnect]_vars

\* the supervisor after startup: ticks, what happens to the sensor's objects
\* between them, and what the remote calls answer
NextMaintain ==
    \/ \E gap \in MaintainGaps, ev \in MaintainEvents :
          /\ Len(trace) < MaxMaintTicks
          /\ BusWait(gap, ev)
    \/ \E o \in MaintainOutcomes : MaintenanceTick(o, TRUE)

SpecMaintain == InitFeed /\ [][NextMaintain]_vars

\* searches of a snapshot for a list of names
NextFind ==
    \E objs \in Snapshots, names \in NameLists :
        /\ Len(trace) < MaxFinds
        /\ FindDevice(objs, names)

SpecFind == InitFeed /\ [][NextFind]_vars

\* the replay of a log of at most MaxLogLines lines
NextReplay ==
    \E line \in LogLines :
        /\ Len(trace) < MaxLogLines
        /\ ReplayLine(line)

SpecReplay == InitFeed /\ [][NextReplay]_vars

\* samples in any order of their timestamps
NextSamples ==
    \E bpm \in SampleBpms, rr_ms \in SampleRRs, ts \in SampleTs :
        /\ Len(trace) < MaxBackSamples
        /\ FeedSample(bpm, rr_ms, ts)

SpecSamples == InitFeed /\ [][NextSamples]_vars

\* every sequence of values of PatternVals, one value per sample
NextPattern ==
    \E rr \in PatternVals :
        /\ Len(trace) < MaxPatternValues
        /\ FeedArrhythmia(<<rr>>, 1001 * Len(trace), MaxPatternValues)

SpecPattern == InitFeed /\ [][NextPattern]_vars

\* the cleaning pass on one history
NextClean ==
    \E rr \in CleanLists :
        /\ trace = <<>>
        /\ CleanHistory(rr)

SpecClean == InitFeed /\ [][NextClean]_vars

\* the later of the two retry times of the routine
PendingUntil == Max(sup.next_reacquire_attempt, sup.next_connect_attempt)

\* a wait on a healthy transport.  The routine only compares the time with
\* its two retry times, so once both have passed the clock is kept.
HealthyWait ==
    BusWait(IF steady < PendingUntil THEN RecoverGap ELSE 0, HealthyEvent(transport))

\* a tick on a healthy transport
HealthyTick == MaintenanceTick(OkOutcome, FALSE)

\* one iteration of the event loop from the supervisor state st: the wait
\* (BusWait) and the tick after it (MaintenanceTick)
LoopRound(st, gap, ev, o) ==
    LET now == st.steady + gap
        r == EnsureConnectedAndNotifying(st.s, st.u, TransportEvent(st.t, ev), now, o)
    IN  [s |-> r.s, u |-> r.u, t |-> r.t, steady |-> now + r.elapsed]

\* the supervisor states after at most k iterations on a misbehaving
\* transport, from the state after startup
RECURSIVE ReachableLinks(_)
ReachableLinks(k) ==
    IF k = 0
    THEN {[s |-> HealthySession,
           u |-> [next_reacquire_attempt |-> 0, next_connect_attempt |-> 0,
                  connect_failures |-> 0],
           t |-> [dev |-> DevA, connected |-> TRUE, char |-> CharF,
                  notifying |-> "true"],
           steady |-> 0]}
    ELSE LET R == ReachableLinks(k - 1)
         IN  R \cup UNION {
                 {LoopRound(st, gap, ev, o) :
                     gap \in MaintainGaps,
                     ev \in {e \in MaintainEvents : EventPossible(st.t, e)},
                     o \in RecoverOutcomes} : st \in R}

\* the state st with its times counted from its steady time: the routine
\* only compares the time with the retry times, and a retry time that has
\* passed compares like time_point::min()
SinceNow(st) ==
    [st EXCEPT !.steady = 0,
               !.u.next_reacquire_attempt = Max(0, @ - st.steady),
               !.u.next_connect_attempt = Max(0, @ - st.steady)]

RecoverStarts == {SinceNow(st) : st \in ReachableLinks(MaxMaintTicks)}

InitRecover == InitSupervisor(RecoverStarts)

\* the ticks in the trace
MaintainTicks == SelectSeq(trace, LAMBDA r : r.op = "maintain")

\* the process from its start: the startup, then the event loop
NextStartup ==
    \/ \E o \in StartupOutcomes : StartupAcquire(o)
    \/ \E o \in StartupOutcomes, listed \in BOOLEAN : StartupConnect(o, listed)
    \/ \E o \in StartupOutcomes : StartupSubscribe(o)
    \/ \E gap \in MaintainGaps, ev \in StartupLoopEvents :
          /\ Len(MaintainTicks) < MaxStartupTicks
          /\ BusWait(gap, ev)
    \/ \E o \in StartupLoopOutcomes : MaintenanceTick(o, TRUE)

SpecStartup == InitStartup /\ [][NextStartup]_vars

\* the transport has become healthy
NextRecover == HealthyWait \/ HealthyTick

\* the event loop keeps running: it waits, and it ticks
SpecRecover ==
    /\ InitRecover
    /\ [][NextRecover]_vars
    /\ WF_vars(HealthyWait)
    /\ WF_vars(HealthyTick)

(***************************************************************************)
(* Properties of the frame decoder.                                        *)
(***************************************************************************)
Bit(byte, k) == (byte \div (2 ^ k)) % 2

\* C1: for every frame, bpm is byte 1 when flags bit 0 is 0 and at least 2
\* bytes are present, byte1 + 256*byte2 when bit 0 is 1 and at least 3 bytes
\* are present, and absent in every other case.
C1_BpmField ==
    \A i \in 1..Len(trace) :
        LET e == trace[i]
            b == e.bytes
        IN  IF Len(b) >= 2 /\ Bit(b[1], 0) = 0 THEN e.bpm = b[2]
            ELSE IF Len(b) >= 3 /\ Bit(b[1], 0) = 1 THEN e.bpm = b[2] + 256 * b[3]
            ELSE e.bpm = -1

C1_Witness ==
    \E i \in 1..Len(trace) :
        /\ Len(trace[i].bytes) >= 3
        /\ Bit(trace[i].bytes[1], 0) = 1
        /\ trace[i].bytes[2] = 3
        /\ trace[i].bytes[3] = 192
        /\ trace[i].bpm = 49155

\* where the RR pairs of frame b start (0-based): after the flags, the
\* heart-rate field that was read and the Energy-Expended field that was skipped
RRStart(b) ==
    LET w == IF Bit(b[1], 0) = 1 THEN (IF Len(b) >= 3 THEN 2 ELSE 0)
             ELSE (IF Len(b) >= 2 THEN 1 ELSE 0)
        ee == IF Bit(b[1], 3) = 1 /\ Len(b) >= 1 + w + 2 THEN 2 ELSE 0
    IN  1 + w + ee

\* C2: with flags bit 4 set the RR list is, in transmission order,
\* (raw*1000 + 512) div 1024 for each complete little-endian pair after the
\* bpm field and the skipped Energy-Expended field; a trailing single byte is
\* ignored; with bit 4 clear the list is empty.
C2_RRList ==
    \A i \in 1..Len(trace) :
        LET e == trace[i]
            b == e.bytes
        IN  IF b = <<>> \/ Bit(b[1], 4) = 0 THEN e.rr_ms = <<>>
            ELSE LET s == RRStart(b)
                     n == IF Len(b) >= s THEN (Len(b) - s) \div 2 ELSE 0
                 IN  e.rr_ms = [k \in 1..n |->
                         ((b[s + 2 * k - 1] + 256 * b[s + 2 * k]) * 1000 + 512) \div 1024]

C2_Witness ==
    \E i \in 1..Len(trace) :
        LET b == trace[i].bytes
        IN  /\ Len(b) = 7
            /\ Bit(b[1], 4) = 1 /\ Bit(b[1], 3) = 1 /\ Bit(b[1], 0) = 0
            /\ b[5] = 192 /\ b[6] = 3
            /\ trace[i].rr_ms = <<938>>

Frame10 == <<16, 72, 0, 192, 3, 64, 3>>
Frame11 == <<17, 72, 0, 192, 3, 64, 3>>

\* C3 as stated: the frame [0x10,0x48,0x00,0xC0,0x03,0x40,0x03] decodes to
\* bpm 72 and the RR list [938, 813].
C3_Original ==
    \A i \in 1..Len(trace) :
        trace[i].bytes = Frame10 =>
            trace[i].bpm = 72 /\ trace[i].rr_ms = <<938, 813>>

\* C3 amended: the frame [0x10,0x48,0x00,0xC0,0x03,0x40,0x03] (bit 0 clear,
\* 8-bit heart rate) decodes to bpm 72 and the RR list [48000, 16003]; bpm 72
\* with the RR list [938, 813] is the decoding of the frame whose flags are 0x11.
C3_ExampleFrames ==
    \A i \in 1..Len(trace) :
        /\ trace[i].bytes = Frame10 =>
               trace[i].bpm = 72 /\ trace[i].rr_ms = <<48000, 16003>>
        /\ trace[i].bytes = Frame11 =>
               trace[i].bpm = 72 /\ trace[i].rr_ms = <<938, 813>>

C3_Witness ==
    /\ \E i \in 1..Len(trace) : trace[i].bytes = Frame10 /\ trace[i].emitted
    /\ \E i \in 1..Len(trace) : trace[i].bytes = Frame11 /\ trace[i].emitted

\* C4: the decoder is total: every queued frame is handled, no byte outside
\* the frame is read, the result is a bpm (or absent) and a list of
\* intervals; the empty frame and every one-byte frame give (absent, []).
C4_Total ==
    /\ pending => LET p == ParseHRM(msg)
                  IN  /\ p.reads \subseteq 0..(Len(msg) - 1)
                      /\ p.bpm \in -1..65535
                      /\ DOMAIN p.rr_ms = 1..Len(p.rr_ms)
    /\ ~pending => Len(trace) = 1
    /\ \A i \in 1..Len(trace) :
           LET e == trace[i]
           IN  /\ e.reads \subseteq 0..(Len(e.bytes) - 1)
               /\ e.bpm \in -1..65535
               /\ \A k \in 1..Len(e.rr_ms) : e.rr_ms[k] \in 0..63999
               /\ Len(e.bytes) <= 1 => (e.bpm = -1 /\ e.rr_ms = <<>>)

C4_Witness ==
    \E i \in 1..Len(trace) :
        /\ Len(trace[i].bytes) = 1
        /\ Bit(trace[i].bytes[1], 0) = 1
        /\ trace[i].bpm = -1
        /\ trace[i].rr_ms = <<>>
        /\ trace[i].line = "9"

(***************************************************************************)
(* Properties of the notification pipeline.                                *)
(***************************************************************************)
RECURSIVE CommaFields(_)
CommaFields(q) ==
    IF q = <<>> THEN "" ELSE "," \o ToString(Head(q)) \o CommaFields(Tail(q))

\* the text timestamp[,bpm][,rr...] of a handled record
RecordText(e) ==
    ToString(e.t) \o (IF e.bpm = -1 THEN "" ELSE "," \o ToString(e.bpm))
                  \o CommaFields(e.rr_ms)

EmittedBefore(i) == {j \in 1..(i - 1) : trace[j].emitted}

LastEmittedBefore(i) == CHOOSE j \in EmittedBefore(i) : \A k \in EmittedBefore(i) : k <= j

RECURSIVE EmittedLines(_)
EmittedLines(tr) ==
    IF tr = <<>> THEN <<>>
    ELSE (IF Head(tr).emitted THEN <<Head(tr).line>> ELSE <<>>) \o EmittedLines(Tail(tr))

\* C5: a record is suppressed, and counted, exactly when its full text equals
\* the text of the most recently emitted line; every other record is emitted
\* once and becomes the last line; a suppressed record reaches no detector and
\* leaves the remembered line alone.
C5_Dedup ==
    /\ \A i \in 1..Len(trace) :
           /\ trace[i].line = RecordText(trace[i])
           /\ ~trace[i].emitted <=>
                  /\ EmittedBefore(i) # {}
                  /\ RecordText(trace[LastEmittedBefore(i)]) = RecordText(trace[i])
           /\ ~trace[i].emitted => trace[i].calls = {} /\ trace[i].out = <<>>
    /\ s_suppressed = Cardinality({i \in 1..Len(trace) : ~trace[i].emitted})
    /\ stdout = EmittedLines(trace)
    /\ s_last_line = IF stdout = <<>> THEN "" ELSE stdout[Len(stdout)]

C5_Witness ==
    \E i \in 1..Len(trace) :
        /\ ~trace[i].emitted
        /\ \E j \in (i + 1)..Len(trace) : trace[j].emitted
        /\ s_suppressed >= 1

(***************************************************************************)
(* Properties of the rate detectors, over the samples fed so far.          *)
(***************************************************************************)
BradyRun(i) == trace[i].bpm > 0 /\ trace[i].bpm < 60
TachyRun(i) == trace[i].bpm > 100

\* the first sample of the maximal run (of In) that ends at sample i
RunFirst(In(_), i) ==
    CHOOSE j \in 1..i : /\ \A k \in j..i : In(k)
                        /\ (j = 1 \/ ~In(j - 1))

RunBpms(j, i) == {trace[k].bpm : k \in j..i}
Lowest(S) == CHOOSE m \in S : \A x \in S : m <= x
Highest(S) == CHOOSE m \in S : \A x \in S : m >= x

\* what sample i has to emit: one entry warning at the first sample of a run,
\* one recovery at the first sample after it, nothing otherwise.  Dur(i, j) is
\* the duration a recovery at i reports for a run that started at j.
RateEmits(In(_), i, entry, recovered, extreme, Ext(_), Dur(_, _)) ==
    LET out == trace[i].out
    IN  IF In(i) /\ (i = 1 \/ ~In(i - 1))
        THEN /\ Len(out) = 1
             /\ out[1].kind = entry
             /\ out[1].bpm = trace[i].bpm
        ELSE IF ~In(i) /\ i > 1 /\ In(i - 1)
        THEN LET j == RunFirst(In, i - 1)
             IN  /\ Len(out) = 1
                 /\ out[1].kind = recovered
                 /\ out[1][extreme] = Ext(RunBpms(j, i - 1))
                 /\ out[1].dur_ms = Dur(i, j)
        ELSE out = <<>>

TsDifference(i, j) == trace[i].ts_ms - trace[j].ts_ms
TsDifferenceOrZero(i, j) == Max(0, trace[i].ts_ms - trace[j].ts_ms)

RECURSIVE Kinds(_)
Kinds(tr) ==
    IF tr = <<>> THEN <<>>
    ELSE [k \in 1..Len(Head(tr).out) |-> Head(tr).out[k].kind] \o Kinds(Tail(tr))

FedAs(bpms, tss) ==
    /\ Len(trace) >= Len(bpms)
    /\ \A i \in 1..Len(bpms) : trace[i].bpm = bpms[i] /\ trace[i].ts_ms = tss[i]

\* C6 as stated: one entry warning at the first sample of each maximal run of
\* 0 < bpm < 60, one recovery at the first sample after it reporting the
\* lowest bpm of the run and duration = recovery timestamp minus the run's
\* first timestamp.
C6_Original ==
    \A i \in 1..Len(trace) :
        RateEmits(BradyRun, i, "bradycardia", "bradycardia_recovered",
                  "lowest_bpm", Lowest, TsDifference)

\* C6 amended: as stated, with duration = max(0, recovery timestamp minus the
\* run's first timestamp); bpm [55,55,65] at ts [0,500,1500] gives one warning
\* at ts 0 and one recovery at ts 1500 with lowest_bpm 55 and duration 1500 ms
\* (printed 1.5s).
C6_Bradycardia ==
    /\ \A i \in 1..Len(trace) :
           RateEmits(BradyRun, i, "bradycardia", "bradycardia_recovered",
                     "lowest_bpm", Lowest, TsDifferenceOrZero)
    /\ FedAs(<<55, 55, 65>>, <<0, 500, 1500>>) =>
           /\ trace[1].out = <<[kind |-> "bradycardia", bpm |-> 55]>>
           /\ trace[2].out = <<>>
           /\ trace[3].out = <<[kind |-> "bradycardia_recovered", dur_ms |-> 1500,
                                duration |-> "1.5s", lowest_bpm |-> 55]>>

C6_Witness ==
    /\ FedAs(<<55, 55, 65>>, <<0, 500, 1500>>)
    /\ ~brady.active
    /\ Len(trace[3].out) = 1

\* C7 as stated: one entry warning at the first sample of each maximal run of
\* bpm > 100, one recovery at the first following sample with bpm <= 100
\* reporting the highest bpm of the run and duration = recovery timestamp
\* minus the run's first timestamp.
C7_Original ==
    \A i \in 1..Len(trace) :
        RateEmits(TachyRun, i, "tachycardia", "tachycardia_recovered",
                  "highest_bpm", Highest, TsDifference)

\* C7 amended: as stated, with duration = max(0, recovery timestamp minus the
\* run's first timestamp); warnings and recoveries alternate, starting with a
\* warning.
C7_Tachycardia ==
    /\ \A i \in 1..Len(trace) :
           RateEmits(TachyRun, i, "tachycardia", "tachycardia_recovered",
                     "highest_bpm", Highest, TsDifferenceOrZero)
    /\ LET ks == Kinds(trace)
       IN  \A k \in 1..Len(ks) :
               ks[k] = IF k % 2 = 1 THEN "tachycardia" ELSE "tachycardia_recovered"

C7_Witness ==
    /\ Len(trace) >= 3
    /\ trace[1].bpm = 120 /\ trace[2].bpm = 150 /\ trace[3].bpm = 100
    /\ trace[1].ts_ms = 0 /\ trace[3].ts_ms = 1500
    /\ trace[3].out = <<[kind |-> "tachycardia_recovered", dur_ms |-> 1500,
                         duration |-> "1.5s", highest_bpm |-> 150]>>

(***************************************************************************)
(* Properties of the arrhythmia detector, over the RR values fed so far.   *)
(***************************************************************************)
\* per value fed: the timestamp of its sample, and what it emitted
RECURSIVE FedTs(_)
FedTs(tr) ==
    IF tr = <<>> THEN <<>>
    ELSE [k \in 1..Len(Head(tr).rr_ms) |-> Head(tr).ts_ms] \o FedTs(Tail(tr))

RECURSIVE FedOut(_)
FedOut(tr) == IF tr = <<>> THEN <<>> ELSE Head(tr).by_value \o FedOut(Tail(tr))

InRange(rr) == rr >= 250 /\ rr <= 2500

NormalsUpTo(vals, p) == SelectSeq(SubSeq(vals, 1, p), InRange)

HasKind(out, kind) == \E k \in 1..Len(out) : out[k].kind = kind

\* C8: every RR value outside [250, 2500] emits one warning each time it
\* occurs, pause/dropout above 2500 and artifact below 250; 250 and 2500 are
\* normal; such a value is never appended to the history and does not take
\* part in the ectopic check.
C8_Abnormal ==
    LET vals == FedRR(trace)
        outs == FedOut(trace)
        hist == SelectSeq(vals, InRange)
        n == Len(hist)
    IN  /\ \A p \in 1..Len(vals) :
               IF vals[p] > 2500
               THEN outs[p] = <<[kind |-> "pause_dropout", rr_ms |-> vals[p]]>>
               ELSE IF vals[p] < 250
               THEN outs[p] = <<[kind |-> "artifact", rr_ms |-> vals[p]]>>
               ELSE ~HasKind(outs[p], "pause_dropout") /\ ~HasKind(outs[p], "artifact")
        /\ arr.rr_raw = hist
        /\ arr.ectopic_active <=>
               /\ n >= 4
               /\ 10 * hist[n - 2] <= 8 * hist[n - 3]
               /\ 10 * hist[n - 1] >= 13 * hist[n - 2]
               /\ 10 * hist[n] <= 9 * hist[n - 1]

\* a pause warning recurs, and an abnormal value arrives while an ectopic
\* episode is active and while the last three history values would complete
\* the pattern with it
C8_Witness ==
    LET vals == FedRR(trace)
    IN  /\ Len(vals) = 5
        /\ vals = <<800, 620, 1100, 750, 3000>>
        /\ arr.ectopic_active
        /\ arr.rr_raw = <<800, 620, 1100, 750>>
        /\ HasKind(FedOut(trace)[5], "pause_dropout")

\* the first value of the run of abnormal values that ends at position p
AbnormalRunFirst(vals, p) ==
    CHOOSE q \in 1..p : /\ \A k \in q..p : ~InRange(vals[k])
                        /\ (q = 1 \/ InRange(vals[q - 1]))

\* the pause/artifact recovery that the normal value at p emits when Gate
\* holds of the time since the run before it started, and only then
PauseRecovery(Gate(_), strict) ==
    LET vals == FedRR(trace)
        tss == FedTs(trace)
        outs == FedOut(trace)
    IN  \A p \in 2..Len(vals) :
            (InRange(vals[p]) /\ ~InRange(vals[p - 1])) =>
                LET q == AbnormalRunFirst(vals, p - 1)
                    run == {vals[k] : k \in q..(p - 1)}
                    dur == Max(0, tss[p] - tss[q])
                IN  /\ Gate(dur) =>
                        /\ outs[p] # <<>>
                        /\ outs[p][1].kind = "pause_recovered"
                        /\ outs[p][1].min_rr = Lowest(run)
                        /\ outs[p][1].max_rr = Highest(run)
                        /\ outs[p][1].duration = ToString(dur \div 1000) \o "s"
                    /\ (strict /\ ~Gate(dur)) => ~HasKind(outs[p], "pause_recovered")

AtLeast1000(dur) == dur >= 1000
MoreThan1000(dur) == dur > 1000

PauseInactiveAfterNormal ==
    LET vals == FedRR(trace)
    IN  arr.pause_active <=> (vals # <<>> /\ ~InRange(vals[Len(vals)]))

\* C9 as stated: a normal value at least 1000 ms after the start of the
\* abnormal run before it emits a recovery with the run's min and max.
C9_Original == PauseRecovery(AtLeast1000, FALSE)

\* C9 amended: a normal value more than 1000 ms after the start of the
\* abnormal run before it emits a recovery with the run's min and max; at
\* 1000 ms or less it emits none; either way the pause episode is inactive.
C9_PauseRecovery ==
    /\ PauseRecovery(MoreThan1000, TRUE)
    /\ PauseInactiveAfterNormal

C9_Witness ==
    LET vals == FedRR(trace)
        outs == FedOut(trace)
    IN  /\ Len(vals) = 3
        /\ ~InRange(vals[1]) /\ ~InRange(vals[2]) /\ InRange(vals[3])
        /\ outs[3] # <<>>
        /\ outs[3][1].kind = "pause_recovered"
        /\ outs[3][1].min_rr < outs[3][1].max_rr
        /\ ~arr.pause_active

\* C10: a normal value appended to a history of at least 4 values emits an
\* ectopic warning exactly when the last four values a,b,c,d have
\* b/a <= 0.8, c/b >= 1.3 and d/c <= 0.9; from an empty history,
\* [800,620,1100,750] warns on the 4th value and on no earlier one.
C10_Ectopic ==
    LET vals == FedRR(trace)
        outs == FedOut(trace)
    IN  /\ \A p \in 1..Len(vals) :
               InRange(vals[p]) =>
                   LET h == NormalsUpTo(vals, p)
                       n == Len(h)
                   IN  HasKind(outs[p], "ectopic") <=>
                           /\ n >= 4
                           /\ 10 * h[n - 2] <= 8 * h[n - 3]
                           /\ 10 * h[n - 1] >= 13 * h[n - 2]
                           /\ 10 * h[n] <= 9 * h[n - 1]
        /\ (Len(vals) >= 4 /\ SubSeq(vals, 1, 4) = <<800, 620, 1100, 750>>) =>
               /\ outs[1] = <<>> /\ outs[2] = <<>> /\ outs[3] = <<>>
               /\ outs[4] = <<[kind |-> "ectopic", a |-> 800, b |-> 620,
                               c |-> 1100, d |-> 750]>>

C10_Witness ==
    LET vals == FedRR(trace)
    IN  /\ Len(vals) >= 4
        /\ SubSeq(vals, 1, 4) = <<800, 620, 1100, 750>>
        /\ HasKind(FedOut(trace)[4], "ectopic")
        /\ ~HasKind(FedOut(trace)[3], "ectopic")

(***************************************************************************)
(* Properties of the possible-AF screening and of the RR history.          *)
(***************************************************************************)
LastN(q, n) == SubSeq(q, Max(1, Len(q) - n + 1), Len(q))

\* the history after the first c calls: the latest 512 in-range values fed
HistoryAfter(c) == LastN(SelectSeq(FedRR(SubSeq(trace, 1, c)), InRange), 512)

\* the 128-value analysis segment after the first c calls, <<>> when the
\* history or the cleaned history is shorter
SegmentAfter(c) ==
    LET raw == HistoryAfter(c)
        cleaned == DashStyleCleanRR(raw)
    IN  IF Len(raw) < 128 \/ Len(cleaned) < 128 THEN <<>> ELSE LastN(cleaned, 128)

\* entropy normalised into [0, 1]: -sum p ln p over ln 16
NormalizedEntropyAbove(seg) ==
    LET e == ShannonEntropy16Bins(seg)
    IN  e.defined /\ 10 * e.num > 7 * (IF e.den < 0 THEN -e.den ELSE e.den)

\* RMSSD ratio > 0.1, 0.54 < turning-point ratio < 0.77, entropy > 0.7
AfCriteria(seg) ==
    /\ seg # <<>>
    /\ RmssdAbove(seg)
    /\ TurningPointsInBand(seg)
    /\ NormalizedEntropyAbove(seg)

AfOn(c) == c >= 1 /\ AfCriteria(SegmentAfter(c))

\* the first call of the run of calls, ending at call c, whose segments
\* satisfy the criteria
AfRunFirst(c) ==
    CHOOSE j \in 1..c : /\ \A k \in j..c : AfOn(k)
                        /\ (j = 1 \/ ~AfOn(j - 1))

\* C11: a call that leaves a 128-value segment satisfying the three
\* thresholds, after a call that did not, emits the possible-AF warning, and
\* no other call does (once while the condition keeps holding); the first
\* call whose segment no longer satisfies them emits one recovery provided
\* the episode lasted more than 1000 ms.
C11_Original ==
    \A c \in 1..Len(trace) :
        LET out == trace[c].af_out
        IN  /\ HasKind(out, "possible_af") <=> (AfOn(c) /\ ~AfOn(c - 1))
            /\ (~AfOn(c) /\ AfOn(c - 1)
                  /\ trace[c].ts_ms - trace[AfRunFirst(c - 1)].ts_ms > 1000) =>
                   out = <<[kind |-> "possible_af_recovered",
                            duration |-> ToString((trace[c].ts_ms
                                - trace[AfRunFirst(c - 1)].ts_ms) \div 1000) \o "s"]>>

\* the history holds the most recent min(512, k) of the k in-range values
\* fed so far, in arrival order, and nothing else
HistoryIsLatestNormals ==
    LET normals == SelectSeq(FedRR(trace), InRange)
        k == Len(normals)
        m == IF k < 512 THEN k ELSE 512
    IN  /\ Len(arr.rr_raw) = m
        /\ \A i \in 1..m : arr.rr_raw[i] = normals[k - m + i]
        /\ \A i \in 1..m : arr.rr_raw[i] >= 250 /\ arr.rr_raw[i] <= 2500

\* C19: after any sequence of calls the history is exactly the most recent
\* min(512, k) in-range values in arrival order (k = in-range values fed so
\* far), every stored value lies in [250, 2500], so no ratio has a zero
\* denominator, and the size of the history never decreases.
C19_History ==
    /\ []HistoryIsLatestNormals
    /\ [][Len(arr.rr_raw') >= Len(arr.rr_raw)]_vars

\* the history has overflowed, and out-of-range values were fed
C19_Witness ==
    LET vals == FedRR(trace)
        normals == SelectSeq(vals, InRange)
    IN  /\ Len(normals) > 512
        /\ Len(arr.rr_raw) = 512
        /\ arr.rr_raw[1] # normals[1]
        /\ \E p \in 1..Len(vals) : vals[p] = 3000
        /\ arr.rr_raw[512] = 920

(***************************************************************************)
(* The supervisor: throttles and backoff.                                  *)
(***************************************************************************)
\* tick r of the trace made the remote call
Called(r, call) == \E k \in 1..Len(r.ops) : r.ops[k].call = call

\* tick r made the remote call and got the result
Returned(r, call, result) == \E k \in 1..Len(r.ops) : r.ops[k] = Op(call, result)

\* at tick r the device path resolves to a device that is not connected
Disconnected(r) ==
    /\ r.t.dev # ""
    /\ r.s.dev_path = r.t.dev
    /\ ~r.t.connected

\* no tick strictly between ticks i and j invoked Connect
NoConnectBetween(i, j) == \A m \in (i + 1)..(j - 1) : ~Called(trace[m], "Connect")

\* C12: when Connect fails with the in-progress error the failure counter is
\* unchanged and the next attempt is scheduled 3 s after the tick's time:
\* every later tick before that time on the still-disconnected device
\* returns without Connect, and the first tick at or after it invokes Connect.
C12_InProgress ==
    \A i \in 1..Len(trace) :
        Returned(trace[i], "Connect", "org.bluez.Error.InProgress") =>
            /\ trace[i].u2.connect_failures = trace[i].u.connect_failures
            /\ trace[i].u2.next_connect_attempt = trace[i].now + 3000
            /\ \A j \in (i + 1)..Len(trace) :
                   (NoConnectBetween(i, j) /\ Disconnected(trace[j])) =>
                       (Called(trace[j], "Connect") <=> trace[j].now >= trace[i].now + 3000)

\* an in-progress answer, a tick 500 ms later that is refused, and a tick
\* exactly 3 s later that invokes Connect
C12_Witness ==
    /\ Len(trace) = 3
    /\ Returned(trace[1], "Connect", "org.bluez.Error.InProgress")
    /\ trace[2].now = trace[1].now + 500
    /\ Disconnected(trace[2]) /\ ~Called(trace[2], "Connect")
    /\ trace[3].now = trace[1].now + 3000
    /\ Called(trace[3], "Connect")

\* the delay, in ms, the policy prescribes after the failure that brings the
\* counter to failures
PolicyDelay(failures, err) ==
    LET e == IF failures < 5 THEN failures ELSE 5
        pow == 2 ^ e
        capped == IF pow < 30 THEN pow ELSE 30
        floored == IF err \in {"org.freedesktop.DBus.Error.Timeout", "org.bluez.Error.Failed"}
                      /\ capped < 5
                   THEN 5 ELSE capped
    IN  1000 * floored

\* an error, other than in-progress, that tick r got from Connect
ConnectErrors(r) ==
    {r.ops[k].result : k \in {m \in 1..Len(r.ops) :
        /\ r.ops[m].call = "Connect"
        /\ r.ops[m].result \notin {"ok", "org.bluez.Error.InProgress"}}}

\* C13: when Connect returns an error other than in-progress the failure
\* counter is incremented by one and the next attempt is scheduled
\* min(30, 2^min(failures, 5)) s later (failures after the increment), at
\* least 5 s for the bus-timeout and generic-failed errors; no tick before
\* that time invokes Connect.
C13_Backoff ==
    \A i \in 1..Len(trace) : \A err \in ConnectErrors(trace[i]) :
        /\ trace[i].u2.connect_failures = trace[i].u.connect_failures + 1
        /\ trace[i].u2.next_connect_attempt =
               trace[i].now + PolicyDelay(trace[i].u2.connect_failures, err)
        /\ \A j \in (i + 1)..Len(trace) :
               trace[j].now < trace[i].u2.next_connect_attempt =>
                   ~Called(trace[j], "Connect")

\* a first generic failure (5 s, where the power of two is 2 s) and two
\* ticks, 500 ms and 3 s later, that return without Connect
C13_Witness ==
    /\ Len(trace) = 3
    /\ Returned(trace[1], "Connect", "org.bluez.Error.Failed")
    /\ trace[1].u2.connect_failures = 1
    /\ trace[1].u2.next_connect_attempt = trace[1].now + 5000
    /\ trace[2].now = trace[1].now + 500
    /\ Disconnected(trace[2]) /\ ~Called(trace[2], "Connect")
    /\ trace[3].now = trace[1].now + 3000
    /\ Disconnected(trace[3]) /\ ~Called(trace[3], "Connect")

\* the delay, in ms, of the exponential backoff with its 5 s floor after the
\* failure that brings the counter to failures
FlooredDelay(failures) ==
    LET d == PolicyDelay(failures, "org.bluez.Error.Failed")
    IN  IF d < 5000 THEN 5000 ELSE d

\* C21: a connect attempt whose Connect call succeeds but whose Connected
\* property is still false after the 20 s poll increments the failure
\* counter by one and schedules the next attempt by the exponential backoff
\* min(30, 2^min(failures, 5)) s with a 5 s floor, measured from the time
\* the poll gave up.
C21_Original ==
    \A i \in 1..Len(trace) :
        Returned(trace[i], "Connected", "false") =>
            /\ trace[i].u2.connect_failures = trace[i].u.connect_failures + 1
            /\ trace[i].u2.next_connect_attempt =
                   trace[i].now + trace[i].elapsed
                       + FlooredDelay(trace[i].u2.connect_failures)

\* the characteristic with the UUID listed under the session's device when
\* tick r ends ("" when there is none)
ListedChar(r) == FindCharByUuid(r.t2, r.s2.dev_path)

\* C22: when Connect succeeds and Connected reads true within the poll, the
\* failure counter is 0 and the next attempt is permitted at once (its time
\* is not after the end of the tick), and the tick goes on: with the
\* characteristic listed it holds that path, and it invokes StartNotify when
\* Notifying did not read true.
C22_ConnectSuccess ==
    \A i \in 1..Len(trace) :
        Returned(trace[i], "Connected", "true") =>
            /\ trace[i].u2.connect_failures = 0
            /\ trace[i].u2.next_connect_attempt <= trace[i].now + trace[i].elapsed
            /\ trace[i].t2.connected
            /\ (ListedChar(trace[i]) # "" /\ ~trace[i].exited) =>
                   /\ trace[i].s2.ch_path = ListedChar(trace[i])
                   /\ trace[i].t.notifying # "true" =>
                          Called(trace[i], "StartNotify")

\* after four counted failures the link comes up within the poll: the
\* counter is back to 0 and StartNotify follows in the same tick
C22_Witness ==
    /\ Len(trace) >= 1
    /\ trace[1].u.connect_failures = 4
    /\ Returned(trace[1], "Connected", "true")
    /\ trace[1].u2.connect_failures = 0
    /\ trace[1].u2.next_connect_attempt = trace[1].now + trace[1].elapsed
    /\ Returned(trace[1], "StartNotify", "ok")
    /\ trace[1].t2.notifying = "true"

\* tick r reached the characteristic step (device resolved and connected)
\* and the re-discovery found no characteristic with the UUID
CharNotFound(r) ==
    /\ ~r.exited
    /\ r.t2.dev # "" /\ r.s2.dev_path = r.t2.dev
    /\ r.t2.connected
    /\ ListedChar(r) = ""

NotifyReached(r) ==
    /\ ~r.exited
    /\ r.t2.dev # "" /\ r.s2.dev_path = r.t2.dev
    /\ r.t2.connected
    /\ ListedChar(r) # ""

\* the number of StartNotify calls of tick r
StartNotifyCalls(r) ==
    Cardinality({k \in 1..Len(r.ops) : r.ops[k].call = "StartNotify"})

\* C24: a tick that reaches the notification step with a characteristic
\* path invokes StartNotify exactly once if Notifying reads false or cannot
\* be read, and not at all if it reads true; a failing StartNotify leaves the
\* session as it was (path, subscription, statics, the Notifying property).
C24_StartNotify ==
    \A i \in 1..Len(trace) :
        NotifyReached(trace[i]) =>
            /\ StartNotifyCalls(trace[i]) =
                   (IF trace[i].t.notifying = "true" THEN 0 ELSE 1)
            /\ Returned(trace[i], "StartNotify", "fail") =>
                   /\ trace[i].t2.notifying = trace[i].t.notifying
                   /\ trace[i].s2.ch_path = ListedChar(trace[i])
                   /\ Len(trace[i].ops) = 1 =>
                          /\ trace[i].s2 = trace[i].s
                          /\ trace[i].u2 = trace[i].u
                          /\ trace[i].t2 = trace[i].t

\* Notifying reads false and StartNotify fails, then Notifying cannot be
\* read and StartNotify succeeds, then a tick that reads true makes no call
C24_Witness ==
    /\ Len(trace) = 3
    /\ \A i \in 1..3 : NotifyReached(trace[i])
    /\ trace[1].t.notifying = "false"
    /\ trace[1].ops = <<Op("StartNotify", "fail")>>
    /\ trace[1].s2 = trace[1].s
    /\ trace[2].t.notifying = "unknown"
    /\ trace[2].ops = <<Op("StartNotify", "ok")>>
    /\ trace[3].t.notifying = "true"
    /\ trace[3].ops = <<>>

\* tick r issued a remote request of the kind and it failed
FailedRequest(r, kind) ==
    CASE kind = "device" -> Called(r, "StartDiscovery") /\ ~r.exited
                            /\ r.s2.dev_path = r.s.dev_path /\ r.t2.dev = ""
      [] kind = "connect" -> \/ \E k \in 1..Len(r.ops) :
                                    r.ops[k].call = "Connect" /\ r.ops[k].result # "ok"
                             \/ Returned(r, "Connected", "false")
      [] kind = "characteristic" -> CharNotFound(r)
      [] kind = "notify" -> Returned(r, "StartNotify", "fail")
      [] OTHER -> FALSE

FailureKinds == {"device", "connect", "characteristic", "notify"}

\* C25: for each kind of steady-state failure (device not found, Connect
\* failing, characteristic absent, StartNotify failing), two consecutive
\* ticks 0.5 s apart do not both issue the failing request.
C25_Original ==
    \A i \in 1..(Len(trace) - 1) : \A kind \in FailureKinds :
        trace[i + 1].now = trace[i].now + trace[i].elapsed + 500 =>
            ~(FailedRequest(trace[i], kind) /\ FailedRequest(trace[i + 1], kind))

(***************************************************************************)
(* The supervisor: healthy ticks, failures, the subscription.              *)
(***************************************************************************)
\* at tick r the session is fully healthy
Healthy(s, t) ==
    /\ t.dev # "" /\ s.dev_path = t.dev
    /\ t.connected
    /\ t.char # "" /\ s.ch_path = PathUnder(t.dev, t.char)
    /\ t.notifying = "true"

RemoteOrSlotCalls ==
    {"Connect", "StartDiscovery", "StopDiscovery", "StartNotify",
     "sd_bus_add_match", "sd_bus_slot_unref"}

\* C14: a tick on a fully healthy session performs no remote method
\* invocation, installs or releases no subscription, and leaves device path,
\* characteristic path, subscription handle, failure counter and both
\* throttle timestamps unchanged, however often it is repeated.
C14_HealthyNoOp ==
    \A i \in 1..Len(trace) :
        Healthy(trace[i].s, trace[i].t) =>
            /\ \A c \in RemoteOrSlotCalls : ~Called(trace[i], c)
            /\ trace[i].s2 = trace[i].s
            /\ trace[i].u2 = trace[i].u

\* three ticks in a row on a healthy session, the last two after the session
\* was repaired with a failure counted
C14_Witness ==
    /\ Len(trace) = 3
    /\ Called(trace[1], "Connect")
    /\ trace[1].u2.next_connect_attempt > 0
    /\ Called(trace[1], "StartNotify")
    /\ Healthy(trace[2].s, trace[2].t)
    /\ Healthy(trace[3].s, trace[3].t)
    /\ trace[3].s.slot # ""
    /\ loop = "wait"

\* C15: no failure of a remote call made by the maintenance routine
\* terminates the process: the routine returns and a later tick can retry.
C15_Original == \A i \in 1..Len(trace) : ~trace[i].exited

\* positions of a call in the log of tick r
CallAt(r, call) == {k \in 1..Len(r.ops) : r.ops[k].call = call}

\* tick r released the old handle, if any, before it changed the path, and
\* changed the path before it installed the new subscription
TornDownFirst(r) ==
    /\ r.s.slot # "" =>
          \E k \in CallAt(r, "sd_bus_slot_unref") :
              /\ r.ops[k].result = r.s.slot
              /\ \A m \in CallAt(r, "ch_path") \cup CallAt(r, "sd_bus_add_match") : k < m
    /\ \A k \in CallAt(r, "ch_path") : \A m \in CallAt(r, "sd_bus_add_match") : k < m

\* C16: whenever a tick changes the characteristic path the existing handle
\* is released and cleared before the path changes and before the new
\* subscription is installed; at most one subscription is installed in every
\* state, and after a successful change it is scoped to the current path.
C16_Subscription ==
    /\ Len(session.matches) <= 1
    /\ \A i \in 1..Len(trace) :
           trace[i].s2.ch_path # trace[i].s.ch_path =>
               /\ TornDownFirst(trace[i])
               /\ Returned(trace[i], "sd_bus_add_match", "ok") =>
                      /\ trace[i].s2.matches = <<trace[i].s2.ch_path>>
                      /\ trace[i].s2.slot = trace[i].s2.ch_path

\* the path changed twice, each time with a handle to release
C16_Witness ==
    \E i, j \in 1..Len(trace) :
        /\ i < j
        /\ trace[i].s.slot # "" /\ trace[i].s2.ch_path # trace[i].s.ch_path
        /\ trace[j].s.slot # "" /\ trace[j].s2.ch_path # trace[j].s.ch_path
        /\ Returned(trace[j], "sd_bus_add_match", "ok")
        /\ session.matches = <<session.ch_path>>

\* the paths the polls of tick r's scan found
FoundPaths(r) ==
    {r.ops[k].result : k \in CallAt(r, "find_any_device_by_names")} \ {""}

\* tick r tried to re-acquire the device and did not find it
ReacquireFailed(r) ==
    /\ Called(r, "StartDiscovery")
    /\ ~r.exited
    /\ FoundPaths(r) = {}

\* a failure tick r counted after its successful scan
CountedAfterScan(r) ==
    IF ConnectErrors(r) # {} \/ Returned(r, "Connected", "false") THEN 1 ELSE 0

\* a successful re-acquisition sets the device path to the found device and
\* resets the failure counter
ReacquireSuccess ==
    \A i \in 1..Len(trace) : \A path \in FoundPaths(trace[i]) :
        /\ trace[i].s2.dev_path = path
        /\ trace[i].u2.connect_failures = CountedAfterScan(trace[i])

\* no tick less than 10 s after a failed attempt starts discovery
ReacquireThrottled ==
    \A i \in 1..Len(trace) :
        ReacquireFailed(trace[i]) =>
            \A j \in (i + 1)..Len(trace) :
                trace[j].now < trace[i].now + trace[i].elapsed + 10000 =>
                    ~Called(trace[j], "StartDiscovery")

\* C17: a tick less than 10 s after a failed re-acquisition attempt returns
\* without starting discovery; a successful re-acquisition sets the device
\* path to the found device and resets the failure counter to 0.
C17_Original == ReacquireThrottled /\ ReacquireSuccess

(***************************************************************************)
(* Device search.                                                          *)
(***************************************************************************)
\* the positions of the names that some device of the snapshot carries
ListedPositions(objs, names) ==
    {p \in 1..Len(names) :
        \E k \in 1..Len(objs) : /\ objs[k].interface = "org.bluez.Device1"
                                /\ objs[k].name = <<names[p]>>}

\* C18: when the snapshot has devices matching more than one listed name the
\* search returns the device matching the name that comes first in the list,
\* whatever the order of the objects; it returns nothing only when no device
\* matches any listed name.
C18_Original ==
    \A i \in 1..Len(trace) :
        LET r == trace[i]
            ps == ListedPositions(r.objs, r.names)
        IN  /\ r.found = <<>> <=> ps = {}
            /\ ps # {} =>
                  LET first == CHOOSE p \in ps : \A q \in ps : p <= q
                  IN  /\ r.found[1].name = r.names[first]
                      /\ \E k \in 1..Len(r.objs) :
                             /\ r.objs[k].path = r.found[1].path
                             /\ r.objs[k].name = <<r.names[first]>>

(***************************************************************************)
(* Recovery.                                                               *)
(***************************************************************************)
\* the device is connected, a subscription is installed on the current
\* characteristic path, and Notifying is true
Linked ==
    /\ transport.dev # "" /\ session.dev_path = transport.dev
    /\ transport.connected
    /\ session.ch_path = CharPath(transport) /\ session.ch_path # ""
    /\ session.slot = session.ch_path
    /\ session.matches = <<session.ch_path>>
    /\ transport.notifying = "true"

\* C20: once the transport stays healthy, repeated ticks bring the session,
\* from any state the supervisor can be in (pending backoff included), to a
\* state where the device is connected, a subscription is installed on the
\* current characteristic path and Notifying is true, and keep it there.
C20_Recovers == <>[]Linked

\* linked again, under the device path of a re-acquisition, by a Connect made
\* after a pending backoff of 5 s or more had passed
C20_Witness ==
    /\ Linked
    /\ loop = "wait"
    /\ session.ch_path = PathUnder(DevB, CharF)
    /\ steady > 5000
    /\ sup.next_connect_attempt > 5000
    /\ sup.connect_failures = 0

(***************************************************************************)
(* The Energy-Expended field.                                              *)
(***************************************************************************)
\* the number of bytes of frame b the bpm field takes
BpmWidth(b) ==
    IF Bit(b[1], 0) = 1 THEN (IF Len(b) >= 3 THEN 2 ELSE 0)
    ELSE (IF Len(b) >= 2 THEN 1 ELSE 0)

\* C28: when flags bit 3 is set and at least 2 bytes follow the bpm field,
\* those 2 bytes are skipped and never decoded as an RR interval; when fewer
\* than 2 bytes follow, decoding stops with no RR intervals and no error.
C28_EnergyExpended ==
    \A i \in 1..Len(trace) :
        LET e == trace[i]
            b == e.bytes
        IN  (b # <<>> /\ Bit(b[1], 3) = 1) =>
                LET w == BpmWidth(b)
                    follow == Len(b) - 1 - w
                IN  IF follow >= 2
                    THEN /\ e.reads \cap {1 + w, 2 + w} = {}
                         /\ Len(e.rr_ms) =
                               (IF Bit(b[1], 4) = 1 THEN (follow - 2) \div 2 ELSE 0)
                         /\ \A k \in 1..Len(e.rr_ms) :
                                e.rr_ms[k] = ((b[2 + w + 2 * k] + 256 * b[3 + w + 2 * k])
                                                  * 1000 + 512) \div 1024
                    ELSE /\ e.rr_ms = <<>>
                         /\ e.line # ""

\* a frame whose Energy-Expended bytes would decode as 938 ms, with one RR
\* pair after them; and a frame with a single byte after the bpm field
C28_Witness ==
    \E i \in 1..Len(trace) :
        LET b == trace[i].bytes
        IN  /\ Len(b) = 6
            /\ b[1] = 24
            /\ b[3] = 192 /\ b[4] = 3
            /\ b[5] = 0 /\ b[6] = 3
            /\ trace[i].rr_ms = <<750>>

(***************************************************************************)
(* Ectopic episodes.                                                       *)
(***************************************************************************)
\* the position of the warning that started the episode that is active after
\* the value at position p, 0 when none is active
RECURSIVE EpisodeFirst(_, _, _)
EpisodeFirst(vals, outs, p) ==
    IF p = 0 THEN 0
    ELSE IF ~InRange(vals[p]) THEN EpisodeFirst(vals, outs, p - 1)
    ELSE IF HasKind(outs[p], "ectopic")
    THEN (IF EpisodeFirst(vals, outs, p - 1) # 0
          THEN EpisodeFirst(vals, outs, p - 1) ELSE p)
    ELSE 0

\* the ectopic warnings from position f to position p
WarningsSince(outs, f, p) == Cardinality({k \in f..p : HasKind(outs[k], "ectopic")})

\* C29: an episode starts when the pattern is detected while none is active;
\* its counter is the number of ectopic warnings since it started; the first
\* later normal value that does not match ends it, with a recovery notice
\* carrying the duration and that count if and only if the episode lasted
\* more than 1000 ms, and the episode is inactive afterwards either way.
C29_EctopicEpisode ==
    LET vals == FedRR(trace)
        tss == FedTs(trace)
        outs == FedOut(trace)
        last == EpisodeFirst(vals, outs, Len(vals))
    IN  /\ \A p \in 1..Len(vals) :
               LET f == EpisodeFirst(vals, outs, p - 1)
                   ends == f # 0 /\ InRange(vals[p]) /\ ~HasKind(outs[p], "ectopic")
               IN  SelectSeq(outs[p], LAMBDA w : w.kind = "ectopic_recovered") =
                       IF ends /\ tss[p] - tss[f] > 1000
                       THEN <<[kind |-> "ectopic_recovered",
                               duration |-> ToString((tss[p] - tss[f]) \div 1000) \o "s",
                               count |-> WarningsSince(outs, f, p - 1)]>>
                       ELSE <<>>
        /\ arr.ectopic_active <=> last # 0
        /\ last # 0 =>
               /\ arr.ectopic_start_ms = tss[last]
               /\ arr.ectopic_count = WarningsSince(outs, last, Len(vals))

\* an episode that ended after 1001 ms with a notice, behind an abnormal value
C29_Witness ==
    LET vals == FedRR(trace)
        tss == FedTs(trace)
        outs == FedOut(trace)
    IN  /\ vals = <<800, 620, 1100, 750, 3000, 800>>
        /\ tss[4] = 0 /\ tss[6] = 1001
        /\ outs[5] = <<[kind |-> "pause_dropout", rr_ms |-> 3000]>>
        /\ outs[6] = <<[kind |-> "ectopic_recovered", duration |-> "1s", count |-> 1]>>
        /\ ~arr.ectopic_active

(***************************************************************************)
(* When the possible-AF screening runs.                                    *)
(***************************************************************************)
\* after call c the history, or the cleaned history, is shorter than the window
WindowShort(c) ==
    LET raw == HistoryAfter(c)
    IN  Len(raw) < 128 \/ Len(DashStyleCleanRR(raw)) < 128

\* call c emitted the possible-AF recovery
AfRecoveredAt(c) == HasKind(trace[c].af_out, "possible_af_recovered")

\* C30: the possible-AF classification is evaluated once per call, after
\* all RR values of the sample, and only when the raw history and the cleaned
\* sequence each hold at least 128 values; otherwise the possible-AF state is
\* inactive after the call, and a recovery is emitted only if an episode
\* was active for more than 1000 ms.
C30_Screening ==
    /\ \A c \in 1..Len(trace) :
           /\ Len(trace[c].af_out) <= 1
           /\ \A p \in 1..Len(trace[c].by_value) :
                  /\ ~HasKind(trace[c].by_value[p], "possible_af")
                  /\ ~HasKind(trace[c].by_value[p], "possible_af_recovered")
           /\ WindowShort(c) => ~HasKind(trace[c].af_out, "possible_af")
           /\ AfRecoveredAt(c) =>
                  \E j \in 1..(c - 1) :
                      /\ trace[j].af_out = <<[kind |-> "possible_af"]>>
                      /\ \A m \in (j + 1)..(c - 1) : trace[m].af_out = <<>>
                      /\ trace[c].ts_ms - trace[j].ts_ms > 1000
    /\ (trace # <<>> /\ WindowShort(Len(trace))) => ~arr.possible_af

\* 128 raw values that clean to 126, then 129 that clean to 127, 2000 ms later
C30_Witness ==
    /\ Len(trace) = 2
    /\ Len(HistoryAfter(1)) = 128
    /\ Len(DashStyleCleanRR(HistoryAfter(1))) = 126
    /\ trace[1].af_out = <<>>
    /\ Len(trace[2].rr_ms) = 1
    /\ trace[2].ts_ms = 2000
    /\ Len(HistoryAfter(2)) = 129
    /\ Len(DashStyleCleanRR(HistoryAfter(2))) = 127
    /\ trace[2].af_out = <<>>
    /\ ~arr.possible_af

(***************************************************************************)
(* Startup and the scans.                                                  *)
(***************************************************************************)
\* the polls of the scan of record r: the lookups after StartDiscovery
ScanPolls(r) ==
    {k \in CallAt(r, "find_any_device_by_names") :
        \E d \in CallAt(r, "StartDiscovery") : d < k}

\* record r holds a scan that returned: discovery was requested, and
\* neither that request (at startup) nor a poll ended the process
ScanReturned(r) ==
    /\ Called(r, "StartDiscovery")
    /\ ~Returned(r, "GetManagedObjects", "fail")
    /\ ~(r.op = "acquire" /\ ~Returned(r, "StartDiscovery", "ok"))

\* the timeout of the scan of record r
ScanTimeout(r) == IF r.op = "acquire" THEN 90000 ELSE 15000

\* the scan of record r found the device
ScanFound(r) == \E k \in ScanPolls(r) : r.ops[k].result # ""

\* C26: a scan that returns, at startup or in a tick, polled at least once,
\* every 2 s; it polled until the device was found or the timeout (90 s at
\* startup, 15 s in a tick) had passed, and no further; and it requested
\* StopDiscovery exactly once, after its last poll, found or not.
C26_Scan ==
    \A i \in 1..Len(trace) :
        ScanReturned(trace[i]) =>
            LET r == trace[i]
                n == Cardinality(ScanPolls(r))
                stops == CallAt(r, "StopDiscovery")
            IN  /\ n >= 1
                /\ \A k \in ScanPolls(r) :
                       r.ops[k].result # "" => \A m \in ScanPolls(r) : m <= k
                /\ (n - 1) * 2000 < ScanTimeout(r)
                /\ ~ScanFound(r) =>
                       /\ n * 2000 >= ScanTimeout(r)
                       /\ r.elapsed = n * 2000
                /\ Cardinality(stops) = 1
                /\ \A p \in stops : \A k \in ScanPolls(r) : k < p

\* a first scan that finds the sensor by its last poll, 90 s after the
\* start, and a scan in a tick that gives up after 8 polls: each with one
\* StopDiscovery
C26_Witness ==
    /\ Len(trace) >= 4
    /\ trace[1].op = "acquire" /\ ScanReturned(trace[1]) /\ ScanFound(trace[1])
    /\ Cardinality(ScanPolls(trace[1])) = 45
    /\ trace[1].elapsed = 90000
    /\ Returned(trace[1], "StopDiscovery", "ok")
    /\ trace[4].op = "maintain" /\ ScanReturned(trace[4]) /\ ~ScanFound(trace[4])
    /\ Cardinality(ScanPolls(trace[4])) = 8
    /\ trace[4].ops[Len(trace[4].ops)] = Op("StopDiscovery", "ok")

\* record r ran into the timeout of a scan or of the poll for Connected
TimedOut(r) ==
    \/ ScanReturned(r) /\ ~ScanFound(r)
    \/ Returned(r, "Connected", "false")

\* C27: a timeout of the first scan or of the first connect ends the
\* process with a failure status before the event loop is entered; the same
\* timeouts in a maintenance tick leave the process running in the loop.
C27_FatalAtStartup ==
    \A i \in 1..Len(trace) :
        TimedOut(trace[i]) =>
            IF trace[i].op = "maintain"
            THEN /\ ~trace[i].exited
                 /\ i = Len(trace) => loop \in {"wait", "maintain"}
            ELSE /\ trace[i].exited /\ trace[i].status = "failure"
                 /\ i = Len(trace)
                 /\ loop = "exited"
                 /\ MaintainTicks = <<>>

\* the first scan polls 45 times for 90 s, finds nothing, and the process
\* has ended
C27_Witness ==
    /\ Len(trace) = 1
    /\ trace[1].op = "acquire"
    /\ Cardinality(ScanPolls(trace[1])) = 45
    /\ ~ScanFound(trace[1])
    /\ trace[1].status = "failure"
    /\ loop = "exited"

(***************************************************************************)
(* The cleaning pass.                                                      *)
(***************************************************************************)
\* the pattern of the pass at the 0-based position i of rr
RatiosMatch(rr, i) ==
    /\ 10 * rr[i + 1] <= 8 * rr[i]
    /\ 10 * rr[i + 2] >= 13 * rr[i + 1]
    /\ 10 * rr[i + 3] <= 9 * rr[i + 2]

\* the 0-based positions at which a scan from position i on finds the
\* pattern, resuming two positions after each match
RECURSIVE ScanMatches(_, _)
ScanMatches(rr, i) ==
    IF i + 2 >= Len(rr) THEN {}
    ELSE IF RatiosMatch(rr, i) THEN {i} \cup ScanMatches(rr, i + 2)
    ELSE ScanMatches(rr, i + 1)

\* the values of rr at the 0-based positions from i on that are not in drop
RECURSIVE Without(_, _, _)
Without(rr, drop, i) ==
    IF i >= Len(rr) THEN <<>>
    ELSE (IF i \in drop THEN <<>> ELSE <<rr[i + 1]>>) \o Without(rr, drop, i + 1)

\* C31: the cleaning pass returns the history without rr[i] and rr[i+1] for
\* every position i at which the scan from 1, resuming at i+2 after a match,
\* finds the pattern; the dropped pairs do not overlap, every other value is
\* kept in order, the output is shorter by twice the number of matches, and
\* a history of fewer than 5 values is returned unchanged.
C31_Clean ==
    \A c \in 1..Len(trace) :
        trace[c].op = "clean" =>
            LET rr == trace[c].rr
                M == ScanMatches(rr, 1)
                D == UNION {{i, i + 1} : i \in M}
            IN  IF Len(rr) < 5 THEN trace[c].out = rr
                ELSE /\ trace[c].out = Without(rr, D, 0)
                     /\ \A i, j \in M : i # j => {i, i + 1} \cap {j, j + 1} = {}
                     /\ Len(trace[c].out) = Len(rr) - 2 * Cardinality(M)

\* two patterns back to back: four values dropped, the first and the last
\* kept
C31_Witness ==
    /\ Len(trace) = 1
    /\ trace[1].op = "clean"
    /\ trace[1].rr = <<1000, 620, 1100, 620, 1100, 800>>
    /\ trace[1].out = <<1000, 800>>

(***************************************************************************)
(* Offline replay.                                                         *)
(***************************************************************************)
\* the fields of a line: the runs of characters between its commas
RECURSIVE Groups(_)
Groups(line) ==
    IF \A k \in 1..Len(line) : line[k] # "," THEN <<line>>
    ELSE LET k == CHOOSE j \in 1..Len(line) :
                      line[j] = "," /\ \A m \in 1..(j - 1) : line[m] # ","
         IN  <<SubSeq(line, 1, k - 1)>> \o Groups(SubSeq(line, k + 1, Len(line)))

\* the value of a run of decimal digits
RECURSIVE DigitsValue(_)
DigitsValue(g) ==
    IF g = <<>> THEN 0
    ELSE 10 * DigitsValue(SubSeq(g, 1, Len(g) - 1)) + DigitVal(g[Len(g)])

\* only digits and commas, every comma between two fields, two fields or more
WellFormed(line) ==
    /\ \A k \in 1..Len(line) : IsDigit(line[k]) \/ line[k] = ","
    /\ \A k \in 1..Len(Groups(line)) : Groups(line)[k] # <<>>
    /\ Len(Groups(line)) >= 2

\* the line without a comma at its end
Unterminated(line) ==
    IF line # <<>> /\ line[Len(line)] = "," THEN SubSeq(line, 1, Len(line) - 1)
    ELSE line

\* the calls an accepted line with the field values f makes
ExpectedCalls(f) ==
    <<[fn |-> "health_check_bradycardia", arg |-> <<f[2]>>, ts |-> f[1]],
      [fn |-> "health_check_tachycardia", arg |-> <<f[2]>>, ts |-> f[1]]>>
    \o (IF Len(f) > 2
        THEN <<[fn |-> "health_check_arrhythmia", arg |-> SubSeq(f, 3, Len(f)),
                ts |-> f[1]]>>
        ELSE <<>>)

\* record r treats its line as the claim says, ok telling whether the line
\* is to be accepted with the fields g
Replayed(r, ok, g) ==
    IF ok
    THEN r.calls = ExpectedCalls([k \in 1..Len(g) |-> DigitsValue(g[k])])
    ELSE /\ r.calls = <<>>
         /\ r.brady2 = r.brady /\ r.tachy2 = r.tachy /\ r.arr2 = r.arr

\* C32 as stated: a line is accepted exactly when it consists of two or
\* more fields of digits with single commas between them; a line that is
\* not is skipped with no detector call and no change of detector state; an
\* accepted line calls bradycardia and tachycardia with (field 2, field 1),
\* then arrhythmia with fields 3.. when there is one.
C32_Original ==
    \A c \in 1..Len(trace) :
        trace[c].op = "line" =>
            Replayed(trace[c], WellFormed(trace[c].line), Groups(trace[c].line))

\* C32: as stated, except that one comma after the last field is ignored:
\* a line is accepted exactly when, without a comma at its end, it consists
\* of two or more fields of digits with single commas between them.
C32_Replay ==
    \A c \in 1..Len(trace) :
        trace[c].op = "line" =>
            Replayed(trace[c], WellFormed(Unterminated(trace[c].line)),
                     Groups(Unterminated(trace[c].line)))

\* a line with a comma at its end starts a bradycardia episode, and a line
\* with two commas in a row is skipped
C32_Witness ==
    /\ Len(trace) = 2
    /\ trace[1].line = <<"5", ",", "5", "0", ",">>
    /\ Len(trace[1].calls) = 2
    /\ trace[1].calls[1] = [fn |-> "health_check_bradycardia", arg |-> <<50>>, ts |-> 5]
    /\ trace[1].brady2.active
    /\ trace[2].line = <<"5", ",", ",", "5", "0">>
    /\ trace[2].calls = <<>>
    /\ brady.active /\ brady.start_ms = 5

(***************************************************************************)
(* The order of subscription and StartNotify.                              *)
(***************************************************************************)
\* when record r makes its call number k, a subscription on the path the
\* record ends with is installed: by an earlier call of the record, or
\* from before the record and not released by it
SubscribedBefore(r, k) ==
    \/ \E m \in 1..(k - 1) : r.ops[m] = Op("sd_bus_add_match", "ok")
    \/ /\ ~Called(r, "sd_bus_add_match")
       /\ ~Called(r, "sd_bus_slot_unref")
       /\ r.s.slot # ""
       /\ r.s.slot = r.s2.ch_path

\* C33: whenever StartNotify is invoked on a characteristic path, at startup
\* or in a maintenance tick, a subscription scoped to that path is already
\* installed.
C33_Original ==
    \A i \in 1..Len(trace) : \A k \in CallAt(trace[i], "StartNotify") :
        SubscribedBefore(trace[i], k)

(***************************************************************************)
(* Output lines with RR fields.                                            *)
(***************************************************************************)
\* C34: a frame that decodes to a non-empty RR list has its bpm field (the
\* bytes of the heart rate are all there), and its line is the timestamp,
\* the bpm and the RR values; a frame without bpm gives a line that is the
\* timestamp alone.  So the second field of a line is always the bpm.
C34_BpmBeforeRR ==
    \A i \in 1..Len(trace) :
        LET e == trace[i]
        IN  /\ e.rr_ms # <<>> =>
                   /\ BpmWidth(e.bytes) > 0
                   /\ e.bpm >= 0
                   /\ e.line = Decimal(e.t) \o "," \o Decimal(e.bpm) \o JoinRR(e.rr_ms)
            /\ e.bpm < 0 => e.line = Decimal(e.t)

\* an 8-bit frame with one RR pair: the line is "9,3,938"
C34_Witness ==
    /\ Len(trace) = 1
    /\ trace[1].bytes = <<16, 3, 192, 3>>
    /\ trace[1].bpm = 3
    /\ trace[1].rr_ms = <<938>>
    /\ trace[1].line = "9,3,938"
    /\ stdout = <<"9,3,938">>

(***************************************************************************)
(* Ectopic patterns on consecutive values.                                 *)
(***************************************************************************)
\* the position of the first normal value after position p, 0 when none
NextNormal(vals, p) ==
    IF \E q \in (p + 1)..Len(vals) : InRange(vals[q])
    THEN CHOOSE q \in (p + 1)..Len(vals) :
             InRange(vals[q]) /\ \A m \in (p + 1)..(q - 1) : ~InRange(vals[m])
    ELSE 0

\* the position of the last normal value, 0 when none
LastNormal(vals) ==
    IF \E q \in 1..Len(vals) : InRange(vals[q])
    THEN CHOOSE q \in 1..Len(vals) :
             InRange(vals[q]) /\ \A m \in (q + 1)..Len(vals) : ~InRange(vals[m])
    ELSE 0

\* C35: the pattern never matches at two consecutive normal values, so the
\* occurrence counter is at most 1, an episode is active only while the
\* last normal value is the one that matched (it ends at the next normal
\* value), and every ectopic recovery notice reports count = 1.
C35_SingleEctopic ==
    LET vals == FedRR(trace)
        outs == FedOut(trace)
    IN  /\ \A p \in 1..Len(vals) :
               (HasKind(outs[p], "ectopic") /\ NextNormal(vals, p) # 0) =>
                   ~HasKind(outs[NextNormal(vals, p)], "ectopic")
        /\ arr.ectopic_count <= 1
        /\ arr.ectopic_active =>
               /\ LastNormal(vals) # 0
               /\ HasKind(outs[LastNormal(vals)], "ectopic")
        /\ \A p \in 1..Len(vals) : \A k \in 1..Len(outs[p]) :
               outs[p][k].kind = "ectopic_recovered" => outs[p][k].count = 1

\* a match, an abnormal value during the episode, and the next normal value
\* ends the episode with count = 1
C35_Witness ==
    LET vals == FedRR(trace)
        outs == FedOut(trace)
    IN  /\ vals = <<1000, 620, 1100, 800, 3000, 1000>>
        /\ HasKind(outs[4], "ectopic")
        /\ \E k \in 1..Len(outs[6]) :
               outs[6][k] = [kind |-> "ectopic_recovered", duration |-> "2s", count |-> 1]
        /\ arr.ectopic_count = 1
        /\ ~arr.ectopic_active

(***************************************************************************)
(* The sign of the entropy.                                                *)
(***************************************************************************)
\* the entropy of segment seg is undefined, or is the quotient of a
\* non-negative number and a negative one, or is 0
EntropyNotPositive(seg) ==
    LET e == ShannonEntropy16Bins(seg)
    IN  e.defined => (e.num >= 0 /\ (e.den < 0 \/ e.num = 0))

\* C36: the entropy of every analysis segment is undefined, 0, or a
\* non-negative sum over a negative divisor, so it is never above 0.7: the
\* possible-AF flag is false in every state and no call emits the
\* possible-AF warning or the possible-AF recovery.  (Stated of the latest
\* call of every state, which is every call.)
C36_NeverPossibleAf ==
    /\ ~arr.possible_af
    /\ trace # <<>> =>
           LET c == Len(trace)
               seg == SegmentAfter(c)
           IN  /\ EntropyNotPositive(seg)
               /\ ~EntropyAbove(seg)
               /\ trace[c].af_out = <<>>
               /\ \A p \in 1..Len(trace[c].by_value) :
                      /\ ~HasKind(trace[c].by_value[p], "possible_af")
                      /\ ~HasKind(trace[c].by_value[p], "possible_af_recovered")

\* a full irregular window inside the three thresholds when the entropy is
\* taken over ln 16: the code's entropy is below 0, and nothing is emitted;
\* the next call, 2000 ms later, leaves the window steady
C36_Witness ==
    /\ Len(trace) = 2
    /\ trace[1].ts_ms = 0 /\ trace[2].ts_ms = 2000
    /\ AfCriteria(SegmentAfter(1))
    /\ ShannonEntropy16Bins(SegmentAfter(1)).num > 0
    /\ ShannonEntropy16Bins(SegmentAfter(1)).den < 0
    /\ ~AfCriteria(SegmentAfter(2))
    /\ SegmentAfter(2) # <<>>
    /\ trace[1].af_out = <<>> /\ trace[2].af_out = <<>>
    /\ ~arr.possible_af

(***************************************************************************)
(* Bradycardia and tachycardia on the same samples.                        *)
(***************************************************************************)
\* C37: the notification pipeline gives both rate detectors the same bpm
\* of the same samples, and then the two episodes are never active at once
\* and no sample starts both; one sample can end one episode and start the
\* other (C37_Witness).
C37_NotBothActive ==
    /\ ~(brady.active /\ tachy.active)
    /\ \A k \in 1..Len(trace) :
           /\ ("bradycardia" \in trace[k].calls) <=> ("tachycardia" \in trace[k].calls)
           /\ ~(HasKind(trace[k].out, "bradycardia") /\ HasKind(trace[k].out, "tachycardia"))

\* bpm 55 starts a bradycardia episode; the next sample, bpm 110, ends it
\* and starts a tachycardia episode
C37_Witness ==
    /\ Len(trace) = 2
    /\ trace[1].bpm = 55
    /\ HasKind(trace[1].out, "bradycardia")
    /\ trace[2].bpm = 110
    /\ trace[2].out[1].kind = "bradycardia_recovered"
    /\ trace[2].out[2] = [kind |-> "tachycardia", bpm |-> 110]
    /\ ~brady.active
    /\ tachy.active

(***************************************************************************)
(* Durations when the timestamps go backwards.                             *)
(***************************************************************************)
\* max(0, ts - start)
ClampedSince(ts, start) == IF ts - start < 0 THEN 0 ELSE ts - start

\* the notices of kind kind in the sequence of notices q
OfKind(q, kind) == SelectSeq(q, LAMBDA w : w.kind = kind)

\* the recovery of a rate detector in the output of the latest sample r,
\* whose episode began at start: the duration is the clamped difference,
\* printed as 0.0s when the time went backwards
RateRecoveryClamped(r, kind, start) ==
    \A k \in 1..Len(r.out) :
        r.out[k].kind = kind =>
            /\ r.out[k].dur_ms = ClampedSince(r.ts_ms, start)
            /\ r.out[k].dur_ms >= 0
            /\ r.ts_ms < start => r.out[k].duration = "0.0s"

\* the recovery notices of kind kind of the arrhythmia detector in the
\* latest sample r: only for an episode that was active before the call,
\* began at start, and lasted (clamped) more than 1000 ms
RhythmRecoveryClamped(r, kind, active, start) ==
    LET notices == OfKind(Flatten(r.by_value) \o r.af_out, kind)
    IN  /\ notices # <<>> =>
               /\ active
               /\ ClampedSince(r.ts_ms, start) > 1000
               /\ \A k \in 1..Len(notices) :
                      notices[k].duration =
                          ToString(ClampedSince(r.ts_ms, start) \div 1000) \o "s"
        /\ r.ts_ms < start => notices = <<>>

\* C38: in every detector the duration of a recovery is max(0, timestamp
\* minus episode start), never negative; when the clearing sample is earlier
\* than the episode start the rate detectors report 0 and the arrhythmia
\* detectors print no recovery notice.
C38_ClampedDuration ==
    trace # <<>> =>
        LET r == trace[Len(trace)]
        IN  /\ RateRecoveryClamped(r, "bradycardia_recovered", r.brady.start_ms)
            /\ RateRecoveryClamped(r, "tachycardia_recovered", r.tachy.start_ms)
            /\ RhythmRecoveryClamped(r, "pause_recovered", r.arr.pause_active,
                                     r.arr.pause_start_ms)
            /\ RhythmRecoveryClamped(r, "ectopic_recovered", r.arr.ectopic_active,
                                     r.arr.ectopic_start_ms)
            /\ RhythmRecoveryClamped(r, "possible_af_recovered", r.arr.possible_af,
                                     r.arr.af_start_ms)

\* a slow rate and a pause at 2000 ms, then a normal rate and a normal RR
\* value at 500 ms: bradycardia recovers with 0.0s, the pause ends silently
C38_Witness ==
    /\ Len(trace) = 2
    /\ trace[1].ts_ms = 2000 /\ trace[1].bpm = 50 /\ trace[1].rr_ms = <<3000>>
    /\ trace[2].ts_ms = 500 /\ trace[2].bpm = 65 /\ trace[2].rr_ms = <<800>>
    /\ trace[2].brady.active /\ trace[2].brady.start_ms = 2000
    /\ trace[2].arr.pause_active /\ trace[2].arr.pause_start_ms = 2000
    /\ trace[2].out = <<[kind |-> "bradycardia_recovered", dur_ms |-> 0,
                         duration |-> "0.0s", lowest_bpm |-> 50]>>
    /\ trace[2].by_value = << <<>> >>
    /\ ~brady.active /\ ~arr.pause_active

(***************************************************************************)
(* The range of the retry delay.                                           *)
(***************************************************************************)
\* tick r made a connect attempt that failed: Connect returned an error, or
\* Connected was still false after the poll
FailedAttempt(r) ==
    \/ \E k \in 1..Len(r.ops) : r.ops[k].call = "Connect" /\ r.ops[k].result # "ok"
    \/ Returned(r, "Connected", "false")

\* the time from the return of the failed attempt of tick r to the time at
\* which the next attempt is permitted
RetryDelay(r) == r.u2.next_connect_attempt - (r.now + r.elapsed)

\* the same, from the clock reading the tick began with
RetryDelayFromTickStart(r) == r.u2.next_connect_attempt - r.now

\* the failure counter of tick r went up by one, or to 0, or stayed
CounterStep(r) ==
    r.u2.connect_failures \in {r.u.connect_failures, r.u.connect_failures + 1, 0}

\* the first tick at or after the permitted time of tick i, on the device
\* still resolvable and disconnected, invokes Connect
RetriedWhenPermitted(i) ==
    \A j \in (i + 1)..Len(trace) :
        (/\ trace[j].now >= trace[i].u2.next_connect_attempt
         /\ Disconnected(trace[j])
         /\ NoConnectBetween(i, j)) => Called(trace[j], "Connect")

\* C39: after any failed maintenance connect attempt the delay until the
\* next permitted attempt is at least 2 s and at most 30 s, whatever the
\* failure counter; the first tick after it on the still resolvable and
\* disconnected device invokes Connect again; the counter changes only by
\* one up or to 0.
C39_Original ==
    \A i \in 1..Len(trace) :
        /\ CounterStep(trace[i])
        /\ FailedAttempt(trace[i]) =>
               /\ RetryDelay(trace[i]) >= 2000
               /\ RetryDelay(trace[i]) <= 30000
               /\ RetriedWhenPermitted(i)

\* what holds of the retry: the delay from the tick's own clock reading is
\* within 2 s and 30 s, never more than 30 s after the attempt returned,
\* and the attempt is repeated
C39_FromTickStart ==
    \A i \in 1..Len(trace) :
        /\ CounterStep(trace[i])
        /\ FailedAttempt(trace[i]) =>
               /\ RetryDelayFromTickStart(trace[i]) >= 2000
               /\ RetryDelayFromTickStart(trace[i]) <= 30000
               /\ RetryDelay(trace[i]) <= 30000
               /\ RetriedWhenPermitted(i)

(***************************************************************************)
(* Samples that lack a bpm or RR values.                                   *)
(***************************************************************************)
\* the handler runs on the queued signal and prints its line
PrintsSample ==
    /\ pending /\ ~pending'
    /\ Len(stdout') = Len(stdout) + 1

\* the notices about the rate detectors in the sequence of notices q
RateNotices(q) ==
    SelectSeq(q, LAMBDA w : w.kind \in {"bradycardia", "bradycardia_recovered",
                                         "tachycardia", "tachycardia_recovered"})

\* C40: in the notification pipeline a sample that is printed (not a
\* duplicate) and has no bpm leaves the bradycardia and tachycardia state
\* unchanged and emits no warning or recovery of theirs, and a printed
\* sample with no RR value leaves the whole arrhythmia state unchanged.
C40_AbsentFields ==
    [][PrintsSample =>
          LET p == ParseHRM(msg)
              r == trace'[Len(trace')]
          IN  /\ r.bytes = msg /\ r.emitted
              /\ p.bpm < 0 =>
                     /\ brady' = brady /\ tachy' = tachy
                     /\ RateNotices(r.out) = <<>>
              /\ p.rr_ms = <<>> =>
                     /\ arr' = arr
                     /\ r.out = RateNotices(r.out)]_vars

\* RR values arrive, then bpm 55 starts a bradycardia episode, then a
\* frame with neither bpm nor RR values is printed: the episode and the RR
\* history stay as they were
C40_Witness ==
    /\ Len(trace) = 3
    /\ trace[1].rr_ms # <<>>
    /\ trace[2].bytes = <<0, 55>>
    /\ HasKind(trace[2].out, "bradycardia")
    /\ trace[3].bytes = <<1>>
    /\ trace[3].bpm < 0 /\ trace[3].rr_ms = <<>>
    /\ trace[3].emitted /\ trace[3].calls = {} /\ trace[3].out = <<>>
    /\ brady = [active |-> TRUE, start_ms |-> trace[2].t, lowest_bpm |-> 55]
    /\ arr.rr_raw = trace[1].rr_ms

====
